---------------------------- MODULE Spec2Model ----------------------------
(***************************************************************************)
(* Sticky request router of the credential manager (package auth,          *)
(* StickySelector) as a state machine.                                     *)
(*                                                                         *)
(* Time is counted in units of 10 minutes; 0 is the zero time.Time.        *)
(* Go strings that the code cuts, trims or concatenates (header values,    *)
(* session keys, binding keys, provider names) are sequences of one-       *)
(* character strings; record ids and model names, which the code only      *)
(* compares, are plain strings.                                            *)
(*                                                                         *)
(* A local of the code that is read more than once is a parameter of a     *)
(* helper operator (named ...With, ...From or ...By) rather than a LET.    *)
(***************************************************************************)
EXTENDS Integers, Sequences, FiniteSets, TLC

VARIABLES
    now,        \* the wall clock read by time.Now()
    auths,      \* the credential records handed to Pick, by id
    bindings,   \* StickySelector.bindings: binding key -> stickyBinding
    lastGC,     \* StickySelector.lastGC
    ret,        \* what the last call returned to its caller
    hist,       \* history of each session's calls (not program state)
    call,       \* the last call of a function without state: [fn, arg, out]
    quota,      \* the quota snapshot registries: registry -> authID -> snapshot
    qlast,      \* the last Update or Delete of each authID (not program state)
    preview,    \* what Pick was to return when the last registry call was
                \* made (not program state)
    poll,       \* the locals of DeviceFlowClient.PollForToken
    h,          \* the fields of the ProtocolHandler of package kiro
    live,       \* the servers that serve and the stop channels closed
    gor,        \* the auto-shutdown goroutine of each Start
    ctxDone,    \* the contexts that are cancelled
    clock,      \* minutes since the handler was made
    wait,       \* the call of WaitForCallback that has not returned
    cw          \* the call of waitForOAuthCallback and its goroutines

\* The callback server of the Kiro login and the waits for its callback.
kiroVars == <<h, live, gor, ctxDone, clock, wait, cw>>

vars == <<now, auths, bindings, lastGC, ret, hist, call, quota, qlast,
          preview, poll, kiroVars>>

\* The state outside the selector, which no method of the selector touches.
nonSelector == <<call, quota, qlast, poll, kiroVars>>

\* The registries of package usage, with the history kept of them.
quotaVars == <<quota, qlast, preview>>

\* The state outside the selector that the auto-shutdown goroutine leaves
\* alone unless it stops the server.
nonSelectorButGor ==
    <<quota, qlast, preview, poll, h, live, ctxDone, clock, wait, cw>>

\* The state of the selector and of the records it is given.
selectorVars == <<now, auths, bindings, lastGC, ret, hist>>

-----------------------------------------------------------------------------
(* Bounds of the model *)

\* The clock is read at the instants 1, 2 and TTL + 1 .. MaxNow.
MaxNow == 8

\* PollForToken is followed for at most MaxPolls ticks of its ticker.
MaxPolls == 5

\* Calls of ProtocolHandler.Start that get past the test of h.running.
MaxStarts == 2

\* The minutes the clock of the callback server runs.
MaxClock == 15

-----------------------------------------------------------------------------
(* Program constants *)

\* const stickySessionTTL = time.Hour
stickySessionTTL == 6
\* stickyGCInterval = 10 * time.Minute
stickyGCInterval == 1
\* stickyGCMinEntries = 1024 in the source; scaled down so that a map of
\* the model's session keys can reach the threshold.
stickyGCMinEntries == 2
defaultAuthPriority == 50
\* HandlerTimeout = 10 * time.Minute, in minutes
HandlerTimeout == 10
DefaultHandlerPort == 19876
\* int(^uint(0) >> 1), where int has 32 bits
MaxInt == 2147483647
\* The instant an upstream names in Retry-After, taken verbatim as
\* nextRecoverAt.
RetryAt == 7

-----------------------------------------------------------------------------
(* Strings *)

IsSpace(c) == c \in {" ", "\t", "\n", "\r"}

RECURSIVE TrimLeft(_)
TrimLeft(s) ==
    IF s = <<>> THEN s
    ELSE IF IsSpace(Head(s)) THEN TrimLeft(Tail(s)) ELSE s

RECURSIVE TrimRight(_)
TrimRight(s) ==
    IF s = <<>> THEN s
    ELSE IF IsSpace(s[Len(s)]) THEN TrimRight(SubSeq(s, 1, Len(s) - 1)) ELSE s

\* strings.TrimSpace
TrimSpace(s) == TrimRight(TrimLeft(s))

UpperChars == <<"A","B","C","D","E","F","G","H","I","J","K","L","M",
                "N","O","P","Q","R","S","T","U","V","W","X","Y","Z">>
LowerChars == <<"a","b","c","d","e","f","g","h","i","j","k","l","m",
                "n","o","p","q","r","s","t","u","v","w","x","y","z">>

LowerChar(c) ==
    IF \E i \in 1..Len(UpperChars) : UpperChars[i] = c
    THEN LowerChars[CHOOSE i \in 1..Len(UpperChars) : UpperChars[i] = c]
    ELSE c

\* strings.ToLower
ToLower(s) == [i \in 1..Len(s) |-> LowerChar(s[i])]

\* strings.HasPrefix
HasPrefix(s, p) == Len(s) >= Len(p) /\ SubSeq(s, 1, Len(p)) = p

MinOf(S) == CHOOSE j \in S : \A k \in S : j <= k

SplitAt(s, cut) ==
    IF cut = {} THEN <<s>>
    ELSE <<SubSeq(s, 1, MinOf(cut) - 1), SubSeq(s, MinOf(cut) + 1, Len(s))>>

\* strings.SplitN(s, " ", 2)
SplitN2(s) == SplitAt(s, {i \in 1..Len(s) : s[i] = " "})

-----------------------------------------------------------------------------
(* Priority of a record *)

Digits == <<"0","1","2","3","4","5","6","7","8","9">>
IsDigit(c) == \E i \in 1..10 : Digits[i] = c
DigitVal(c) == (CHOOSE i \in 1..10 : Digits[i] = c) - 1

RECURSIVE DecimalVal(_)
DecimalVal(s) ==
    IF s = <<>> THEN 0
    ELSE 10 * DecimalVal(SubSeq(s, 1, Len(s) - 1)) + DigitVal(s[Len(s)])

AtoiSigned(negative, body) ==
    IF body # <<>> /\ \A i \in 1..Len(body) : IsDigit(body[i])
    THEN [ok |-> TRUE,
          v  |-> IF negative THEN 0 - DecimalVal(body) ELSE DecimalVal(body)]
    ELSE [ok |-> FALSE, v |-> 0]

\* strconv.Atoi: an optional sign followed by one or more decimal digits.
Atoi(s) ==
    IF s # <<>> /\ Head(s) \in {"+", "-"}
    THEN AtoiSigned(Head(s) = "-", Tail(s))
    ELSE AtoiSigned(FALSE, s)

\* int(f) of a float f = n / d (d > 0): truncation towards zero.
TruncDiv(n, d) == IF n >= 0 THEN n \div d ELSE 0 - ((0 - n) \div d)

\* The string case of priorityFromAny, val already trimmed.
priorityFromString(val) ==
    IF val = <<>> THEN [v |-> 0, ok |-> FALSE]
    ELSE IF Atoi(val).ok THEN [v |-> Atoi(val).v, ok |-> TRUE]
    ELSE [v |-> 0, ok |-> FALSE]

\* A value of type any is a record tagged with its dynamic type:
\* [type |-> "int", v], [type |-> "int64", v], [type |-> "float64", n, d],
\* [type |-> "float32", n, d], [type |-> "string", s], [type |-> "bool"].
priorityFromAny(val) ==
    CASE val.type \in {"int", "int64"} -> [v |-> val.v, ok |-> TRUE]
      [] val.type \in {"float64", "float32"} ->
            [v |-> TruncDiv(val.n, val.d), ok |-> TRUE]
      [] val.type = "string" -> priorityFromString(TrimSpace(val.s))
      [] OTHER -> [v |-> 0, ok |-> FALSE]

\* authPriority that ranks a record with a Codex quota snapshot behind
\* the others by the share of the quota it has used.
authPriorityByQuota(a) ==
    IF a.id \in DOMAIN quota["codex"] /\ quota["codex"][a.id].present
    THEN defaultAuthPriority + quota["codex"][a.id].used
    ELSE defaultAuthPriority

\* authPriorityWith that does not read Attributes["priority"].
authPriorityNoAttr(hasMeta, fromMeta, attr) ==
    IF hasMeta /\ fromMeta.ok THEN fromMeta.v ELSE defaultAuthPriority

\* authPriority once Metadata["priority"] was looked at: fromMeta is what
\* priorityFromAny made of it, attr is the trimmed Attributes["priority"].
authPriorityWith(hasMeta, fromMeta, attr) ==
    IF hasMeta /\ fromMeta.ok THEN fromMeta.v
    ELSE IF attr # <<>> /\ Atoi(attr).ok THEN Atoi(attr).v
    ELSE defaultAuthPriority

\* a.Metadata and a.Attributes are maps; a missing "priority" key of
\* Metadata is the value [type |-> "absent"], of Attributes the empty string.
authPriority(a) ==
    authPriorityWith(a.metadata.priority.type # "absent",
                     priorityFromAny(a.metadata.priority),
                     TrimSpace(a.attributes.priority))

-----------------------------------------------------------------------------
(* Session key of a request *)

\* cliproxyexecutor.Options as the selector reads it: the values
\* http.Header.Get returns for the five headers ("" when the header is
\* missing), and user_id, the string gjson yields for metadata.user_id of
\* OriginalRequest ("" when the body is empty or has no such field).
NoOpts ==
    [session_id |-> <<>>, user_id |-> <<>>, authorization |-> <<>>,
     x_api_key |-> <<>>, x_goog_api_key |-> <<>>, user_agent |-> <<>>]

\* sha256.Sum256 followed by hex.EncodeToString(sum[:16]): the digest is
\* taken to be collision free and is written "#" followed by its input.
HexDigest16(input) == <<"#">> \o input

stableHashTrimmed(input) == IF input = <<>> THEN <<>> ELSE HexDigest16(input)

stableHash(input) == stableHashTrimmed(TrimSpace(input))

bearerFrom(header, parts) ==
    IF header = <<>> THEN <<>>
    ELSE IF Len(parts) # 2 THEN header
    ELSE IF ToLower(parts[1]) # <<"b","e","a","r","e","r">> THEN header
    ELSE TrimSpace(parts[2])

extractBearerToken(header) ==
    bearerFrom(TrimSpace(header), SplitN2(TrimSpace(header)))

\* The length of the group [a-f0-9-]{36} of claudeSessionRegex.
SessionIdLen == 36
SessionIdChars ==
    {"a","b","c","d","e","f","0","1","2","3","4","5","6","7","8","9","-"}
SessionTag == <<"s","e","s","s","i","o","n","_">>

SubmatchAt(s, hits) ==
    IF hits = {} THEN <<>>
    ELSE <<SubSeq(s, MinOf(hits), MinOf(hits) + Len(SessionTag) + SessionIdLen - 1),
           SubSeq(s, MinOf(hits) + Len(SessionTag),
                  MinOf(hits) + Len(SessionTag) + SessionIdLen - 1)>>

\* claudeSessionRegex.FindStringSubmatch(s): the leftmost match of
\* session_([a-f0-9-]{36}); <<>> when there is none, else <<match, group>>.
FindSessionSubmatch(s) ==
    SubmatchAt(s, {i \in 1..Len(s) :
        /\ i + Len(SessionTag) + SessionIdLen - 1 <= Len(s)
        /\ SubSeq(s, i, i + Len(SessionTag) - 1) = SessionTag
        /\ \A j \in (i + Len(SessionTag))..(i + Len(SessionTag) + SessionIdLen - 1) :
               s[j] \in SessionIdChars})

CodexPrefix  == <<"c","o","d","e","x",":">>
ClaudePrefix == <<"c","l","a","u","d","e",":">>
ApiKeyPrefix == <<"a","p","i","k","e","y",":">>
UAPrefix     == <<"u","a",":">>

\* extractStickySessionKey on the trimmed session_id, the trimmed
\* metadata.user_id with its regex match, the bearer token, and the trimmed
\* x-api-key, x-goog-api-key and user-agent.
sessionKeyFrom(sid, userID, match, bearer, xkey, gkey, ua) ==
    IF sid # <<>> /\ stableHash(sid) # <<>>
        THEN CodexPrefix \o stableHash(sid)
    ELSE IF userID # <<>> /\ Len(match) = 2
        THEN ClaudePrefix \o match[2]
    ELSE IF bearer # <<>> /\ stableHash(bearer) # <<>>
        THEN ApiKeyPrefix \o stableHash(bearer)
    ELSE IF xkey # <<>> /\ stableHash(xkey) # <<>>
        THEN ApiKeyPrefix \o stableHash(xkey)
    ELSE IF gkey # <<>> /\ stableHash(gkey) # <<>>
        THEN ApiKeyPrefix \o stableHash(gkey)
    ELSE IF ua # <<>> /\ stableHash(ua) # <<>>
        THEN UAPrefix \o stableHash(ua)
    ELSE <<>>

extractStickySessionKey(opts) ==
    sessionKeyFrom(TrimSpace(opts.session_id),
                   TrimSpace(opts.user_id),
                   FindSessionSubmatch(ToLower(TrimSpace(opts.user_id))),
                   extractBearerToken(opts.authorization),
                   TrimSpace(opts.x_api_key),
                   TrimSpace(opts.x_goog_api_key),
                   TrimSpace(opts.user_agent))

-----------------------------------------------------------------------------
(* Credential records and their eligibility *)

Ids == {"a", "b", "c"}
\* The ids in the order of Go's string comparison.
IdOrder == <<"a", "b", "c">>
IdRank(id) == CHOOSE i \in 1..Len(IdOrder) : IdOrder[i] = id
\* candidate.ID < best.ID
IdLess(x, y) == IdRank(x) < IdRank(y)

Provider == <<"c","o","d","e","x">>
Models == {"gpt-test", "gpt-other"}

NoQuota == [exceeded |-> FALSE, nextRecoverAt |-> 0]

\* A model without an entry in a.ModelStates has the zero ModelState.
NoModelState ==
    [unavailable |-> FALSE, nextRetryAfter |-> 0, quota |-> NoQuota]

\* &Auth{ID: id, Provider: provider, Status: StatusActive, Metadata: ...}
NewAuth(id, metaPriority, attrPriority) ==
    [id          |-> id,
     status      |-> "active",
     disabled    |-> FALSE,
     metadata    |-> [priority |-> metaPriority],
     attributes  |-> [priority |-> attrPriority],
     quota       |-> NoQuota,
     modelStates |-> [m \in Models |-> NoModelState]]

\* ModelState of a record cooled off for one model until time t.
CooledUntil(t) ==
    [unavailable    |-> TRUE,
     nextRetryAfter |-> t,
     quota          |-> [exceeded |-> TRUE, nextRecoverAt |-> t]]

Min(x, y) == IF x <= y THEN x ELSE y

\* Step 1 of the selector: the record may be selected for model at time t.
IsEligible(a, model, t) ==
    /\ a.status = "active"
    /\ ~a.disabled
    /\ ~(a.quota.exceeded /\ a.quota.nextRecoverAt > t)
    /\ \/ ~a.modelStates[model].unavailable
       \/ Min(a.modelStates[model].nextRetryAfter,
              a.modelStates[model].quota.nextRecoverAt) <= t

availableOrError(available) ==
    IF available = <<>>
    THEN [available |-> <<>>, err |-> "auth_not_found"]
    ELSE [available |-> available, err |-> ""]

\* getAvailableAuths(auths, provider, model, now): the eligible candidates
\* in the order given, or the error auth_not_found when there is none.
getAvailableAuths(cands, model, t) ==
    availableOrError(SelectSeq(cands, LAMBDA a : IsEligible(a, model, t)))

-----------------------------------------------------------------------------
(* The selector *)

\* stickyBinding{authID, expiresAt, lastUsedAt}
\* NewBinding that leaves lastUsedAt unset.
NewBindingUnstamped(id, t) ==
    [authID |-> id, expiresAt |-> t + stickySessionTTL, lastUsedAt |-> 0]

NewBinding(id, t) ==
    [authID |-> id, expiresAt |-> t + stickySessionTTL, lastUsedAt |-> t]

BindingKey(provider, sessionKey) == provider \o <<":">> \o sessionKey

\* gcDrops that takes a binding at its expiresAt for expired.
gcDropsAtExpiry(v, t) == v.authID = "" \/ t >= v.expiresAt

\* gcDrops that measures the age of a binding from its last use.
gcDropsIdle(v, t) == v.authID = "" \/ t > v.lastUsedAt

\* The test of gcLocked's loop: v.authID == "" || now.After(v.expiresAt)
gcDrops(v, t) == v.authID = "" \/ t > v.expiresAt

gcLocked(b, t) ==
    [bindings |-> [k \in {x \in DOMAIN b : ~gcDrops(b[x], t)} |-> b[k]],
     lastGC   |-> t]

\* The condition under which Pick calls gcLocked.
pickNeedsGC(b, lg, t) ==
    /\ Cardinality(DOMAIN b) > 0
    /\ \/ Cardinality(DOMAIN b) >= stickyGCMinEntries
       \/ lg = 0
       \/ t - lg >= stickyGCInterval

\* The selector after the GC that opens Pick's critical section.
pickGC(b, lg, t) ==
    IF pickNeedsGC(b, lg, t) THEN gcLocked(b, t)
    ELSE [bindings |-> b, lastGC |-> lg]

\* bindingLive with the comparison turned around.
bindingLiveAfter(e, t) == e.authID # "" /\ t > e.expiresAt

\* bindingLive that takes a binding at its expiresAt for unexpired.
bindingLiveAt(e, t) == e.authID # "" /\ t <= e.expiresAt

\* existing.authID != "" && now.Before(existing.expiresAt)
bindingLive(e, t) == e.authID # "" /\ t < e.expiresAt

\* reuseCandidate that does not look the bound record up among the
\* available candidates.
reuseBound(b, key, t, available) ==
    IF key \in DOMAIN b /\ bindingLive(b[key], t)
    THEN <<[id |-> b[key].authID]>>
    ELSE <<>>

\* The candidate the existing binding is reused for: <<>> or <<candidate>>.
reuseCandidate(b, key, t, available) ==
    IF key \in DOMAIN b /\ bindingLive(b[key], t)
    THEN SelectSeq(available, LAMBDA c : c.id = b[key].authID)
    ELSE <<>>

\* The map once the existing binding was looked at and not reused.
dropStale(b, key, t) ==
    IF key \in DOMAIN b /\ ~bindingLive(b[key], t)
    THEN [k \in DOMAIN b \ {key} |-> b[k]]
    ELSE b

\* The elements of seq at the indices in keep, in their order.
RECURSIVE SelectAt(_, _, _)
SelectAt(seq, keep, i) ==
    IF i > Len(seq) THEN <<>>
    ELSE IF i \in keep THEN <<seq[i]>> \o SelectAt(seq, keep, i + 1)
    ELSE SelectAt(seq, keep, i + 1)

\* The loop "if v < min { min = v }" over the values at the indices in use.
RECURSIVE minFrom(_, _, _, _)
minFrom(vals, use, i, m) ==
    IF i > Len(vals) THEN m
    ELSE IF i \in use /\ vals[i] < m THEN minFrom(vals, use, i + 1, vals[i])
    ELSE minFrom(vals, use, i + 1, m)

\* The candidates at the indices in use whose value is m.
keepEqual(seq, vals, use, m) == SelectAt(seq, {i \in use : vals[i] = m}, 1)

\* The candidates at the indices in use whose value is the minimum.
keepMin(seq, vals, use) == keepEqual(seq, vals, use, minFrom(vals, use, 1, MaxInt))

\* priorityFiltered that keeps every candidate.
priorityUnfiltered(available) == available

\* filtered: the candidates whose priority is minPriority.
priorityFiltered(available) ==
    keepMin(available,
            [i \in 1..Len(available) |-> authPriority(available[i])],
            1..Len(available))

\* A binding counts as load of its record.
countsAsLoad(k, binding, provider, t) ==
    /\ HasPrefix(k, provider \o <<":">>)
    /\ ~(binding.authID = "" \/ t > binding.expiresAt)

loadByAuthID(b, provider, t, id) ==
    Cardinality({k \in DOMAIN b :
        countsAsLoad(k, b[k], provider, t) /\ b[k].authID = id})

\* loadFiltered: the candidates with an id whose load is minLoad.
loadFiltered(b, provider, t, filtered) ==
    keepMin(filtered,
            [i \in 1..Len(filtered) |->
                loadByAuthID(b, provider, t, filtered[i].id)],
            {i \in 1..Len(filtered) : filtered[i].id # ""})

\* The session key of a request with the header session_id: sid.
SessionKeyOf(sid) == CodexPrefix \o HexDigest16(sid)

\* binary.BigEndian.Uint64 of the first 8 bytes of
\* SHA-256(sessionKey || 0 || authID).  The digest is a fixed table: the
\* scores of s1 collide on a and b, s1 and s2 both score a above b, s3
\* scores b above a, and c scores highest for s1 and s2.
rendezvousScore(sessionKey, authID) ==
    CASE sessionKey = SessionKeyOf(<<"s","1">>) ->
            [a |-> 7, b |-> 7, c |-> 9][authID]
      [] sessionKey = SessionKeyOf(<<"s","2">>) ->
            [a |-> 5, b |-> 3, c |-> 8][authID]
      [] sessionKey = SessionKeyOf(<<"s","3">>) ->
            [a |-> 2, b |-> 6, c |-> 1][authID]
      [] OTHER -> [a |-> 4, b |-> 4, c |-> 4][authID]

\* rendezvousBeats without the comparison of ids on equal scores.
rendezvousBeatsScore(score, bestScore, candidate, best) == score > bestScore

\* The test of pickRendezvous's loop: candidate replaces best.
rendezvousBeats(score, bestScore, candidate, best) ==
    \/ score > bestScore
    \/ score = bestScore /\ IdLess(candidate.id, best.id)

\* best is <<>> (nil) or <<record>>.
RECURSIVE rendezvousFrom(_, _, _, _)
rendezvousFrom(sessionKey, available, i, best) ==
    IF i > Len(available) THEN best
    ELSE IF available[i].id = ""
         THEN rendezvousFrom(sessionKey, available, i + 1, best)
    ELSE IF \/ best = <<>>
            \/ rendezvousBeats(rendezvousScore(sessionKey, available[i].id),
                               rendezvousScore(sessionKey, best[1].id),
                               available[i], best[1])
         THEN rendezvousFrom(sessionKey, available, i + 1, <<available[i]>>)
    ELSE rendezvousFrom(sessionKey, available, i + 1, best)

pickRendezvous(sessionKey, available) ==
    IF sessionKey = <<>> \/ Len(available) = 0 THEN <<>>
    ELSE rendezvousFrom(sessionKey, available, 1, <<>>)

\* putBinding that leaves an existing binding of the session as it is.
putBindingIfAbsent(b, key, id, t) ==
    IF key \in DOMAIN b THEN b
    ELSE [k \in DOMAIN b \cup {key} |->
             IF k = key THEN NewBinding(id, t) ELSE b[k]]

\* The binding written for the record picked, in place of any older one.
putBinding(b, key, id, t) ==
    [k \in DOMAIN b \cup {key} |-> IF k = key THEN NewBinding(id, t) ELSE b[k]]

\* The end of Pick: b1 is the map without a stale binding of the session.
pickCommit(b1, lg, key, t, selected) ==
    IF selected = <<>>
    THEN [bindings |-> b1, lastGC |-> lg, id |-> "", err |-> "auth_not_found"]
    ELSE [bindings |-> putBinding(b1, key, selected[1].id, t),
          lastGC |-> lg, id |-> selected[1].id, err |-> ""]

\* A new selection: priority, then load, then rendezvous hashing.
pickFresh(b1, lg, key, t, provider, sessionKey, available) ==
    pickCommit(b1, lg, key, t,
               pickRendezvous(sessionKey,
                   loadFiltered(b1, provider, t, priorityFiltered(available))))

\* Pick from the look at the existing binding on; g is the selector after
\* the GC, reuse the candidate of the existing binding.
pickBound(g, key, t, provider, sessionKey, available, reuse) ==
    IF reuse # <<>>
    THEN [bindings |-> putBinding(g.bindings, key, reuse[1].id, t),
          lastGC |-> g.lastGC, id |-> reuse[1].id, err |-> ""]
    ELSE pickFresh(dropStale(g.bindings, key, t), g.lastGC, key, t,
                   provider, sessionKey, available)

pickAfterGC(g, key, t, provider, sessionKey, available) ==
    pickBound(g, key, t, provider, sessionKey, available,
              reuseCandidate(g.bindings, key, t, available))

\* Pick from the point where it holds the mutex: the map, lastGC and the
\* outcome (id, err) it leaves.
pickLocked(b0, lg0, t, provider, sessionKey, available) ==
    pickAfterGC(pickGC(b0, lg0, t), BindingKey(provider, sessionKey), t,
                provider, sessionKey, available)

-----------------------------------------------------------------------------
(* The state machine *)

\* Requests that carry a session_id header.
WithSession(sid) == [NoOpts EXCEPT !.session_id = sid]
Requests == {WithSession(<<"s","1">>), WithSession(<<"s","2">>)}
\* The requests of the specification with three sessions.
RequestsLoad == Requests \cup {WithSession(<<"s","3">>)}

SessionKeys == {SessionKeyOf(<<"s","1">>), SessionKeyOf(<<"s","2">>),
                SessionKeyOf(<<"s","3">>)}

\* The candidate lists a caller may pass: the records by ascending and by
\* descending id.
Orders == {IdOrder, [i \in 1..Len(IdOrder) |-> IdOrder[Len(IdOrder) + 1 - i]]}

\* The instants at which the clock is read.
Instants == {1, 2} \cup ((stickySessionTTL + 1)..MaxNow)

\* The records an operator disables, an upstream rate-limits, and an
\* upstream fails for one model.
DisableIds == {"a", "c"}
QuotaIds == {"b"}
CooldownIds == {"b"}
CooldownModels == {"gpt-test"}

NoBindings == [k \in {} |-> NewBinding("", 0)]

\* call: the method that returned ("" when the last step was no call);
\* statuses: the list SessionBindingStatuses returned, as a set.
NoRet ==
    [sessionKey |-> <<>>, model |-> "", id |-> "", err |-> "",
     call |-> "", statuses |-> {}]

\* History of a session: its last Pick, while that Pick is less than the
\* TTL ago.  id: the record returned; at: when; stayed: the call returned
\* the record of the call before it; from: the record the session was on
\* when it last moved off an ineligible record ("" when its record was not
\* chosen that way); lapsed: the call found the session's binding at or
\* past its expiresAt.
NoHist == [id |-> "", at |-> 0, stayed |-> FALSE, from |-> "", lapsed |-> FALSE]

IdsOf(seq) == {seq[i].id : i \in 1..Len(seq)}

HistAfter(prev, id, t, elig, lapsed) ==
    [id     |-> id,
     lapsed |-> lapsed,
     at     |-> t,
     stayed |-> prev.id # "" /\ id = prev.id,
     from   |-> IF prev.id # "" /\ id = prev.id THEN prev.from
                ELSE IF prev.id # "" /\ prev.id \notin elig THEN prev.id
                ELSE ""]

\* The registry of the Kiro snapshots, a map like the other two.
KiroRegistry == "kiro"

\* The registries of package usage: codexQuotaByAuth, antigravityQuotaByAuth
\* and the one of Kiro.
Registries == {"codex", "antigravity", KiroRegistry}

\* The authIDs under which snapshots are stored.
SnapshotIds == {"a", "b"}

\* A snapshot: plan is PlanType, used is *PrimaryUsedPercent, at is
\* UpdatedAt.  NoSnapshot stands for the nil *CodexQuotaSnapshot and for
\* a key that is not in the map.
NoSnapshot == [present |-> FALSE, plan |-> "", used |-> 0, at |-> 0]
Snapshot(plan, used, at) ==
    [present |-> TRUE, plan |-> plan, used |-> used, at |-> at]

NoSnapshots == [id \in SnapshotIds |-> NoSnapshot]

\* No Update and no Delete was made for the authID.
NoQuotaCall == [op |-> "", snapshot |-> NoSnapshot]

\* No registry call was made since the selector last moved.
NoPreview == [valid |-> FALSE, outcomes |-> <<>>]

\* PollForToken is not running.
NoPoll ==
    [pc |-> "idle", server |-> 0, expiresIn |-> 0, interval |-> 0,
     deadline |-> 0, elapsed |-> 0, polls |-> 0, last |-> "", err |-> "",
     cancelled |-> FALSE]

\* NewProtocolHandler(): server 0 is the nil server, stop channel 0 the
\* channel the constructor makes; starts counts the channels made since.
NewProtocolHandler ==
    [port |-> DefaultHandlerPort, server |-> 0, resultChan |-> <<>>,
     stopChan |-> 0, running |-> FALSE, starts |-> 0]

\* A Start that got past the test of h.running makes stop channel i and,
\* when it binds a port, server i with listener i and the auto-shutdown
\* goroutine i under the context i of its login.
Instances == 1..MaxStarts

NoLive == [serving |-> {}, closed |-> {}, twice |-> {}]
NoGor == [pc |-> "none", at |-> 0]
NoWait == [pc |-> "idle", ctx |-> 0, start |-> 0, gen |-> 0]
\* waitForOAuthCallback before its call: pc is where the caller is, waitG
\* and promptG where its two goroutines are, resultChan its channel,
\* ctxDone and cancelled whether ctx is done and whether cancel() of
\* waitCtx was called, out what it returned.
NoCw ==
    [pc |-> "idle", prompt |-> FALSE, waitG |-> "none", promptG |-> "none",
     resultChan |-> <<>>, ctxDone |-> FALSE, cancelled |-> FALSE,
     out |-> ""]

NoCall == [fn |-> "", arg |-> <<>>, out |-> <<>>]

Init ==
    /\ now = 1
    /\ auths = [id \in Ids |->
                  CASE id = "a" -> NewAuth(id, [type |-> "int", v |-> 10], <<>>)
                    [] id = "b" -> NewAuth(id, [type |-> "string", s |-> <<"1","0">>], <<>>)
                    [] OTHER    -> NewAuth(id, [type |-> "absent"], <<>>)]
    /\ bindings = NoBindings
    /\ lastGC = 0
    /\ ret = NoRet
    /\ hist = [k \in SessionKeys |-> NoHist]
    /\ call = NoCall
    /\ quota = [reg \in Registries |-> NoSnapshots]
    /\ qlast = [reg \in Registries |-> [id \in SnapshotIds |-> NoQuotaCall]]
    /\ preview = NoPreview
    /\ poll = NoPoll
    /\ h = NewProtocolHandler
    /\ live = NoLive
    /\ gor = [i \in Instances |-> NoGor]
    /\ ctxDone = {}
    /\ clock = 0
    /\ wait = NoWait
    /\ cw = NoCw

\* time passes
Tick ==
    /\ \E t \in Instants : t > now /\ (\A u \in Instants : u > now => t <= u)
                            /\ now' = t
                            /\ hist' = [k \in SessionKeys |->
                                           IF hist[k].at + stickySessionTTL <= t
                                           THEN NoHist ELSE hist[k]]
    /\ ret' = NoRet
    /\ UNCHANGED <<auths, bindings, lastGC>>
    /\ UNCHANGED nonSelector
    /\ preview' = NoPreview

\* pickUnlocked that runs the GC before it returns.
pickUnlockedGC(b, lg, t) == gcLocked(b, t)

\* Pick's return before it takes the mutex: the selector is left as it is.
pickUnlocked(b, lg, t) == [bindings |-> b, lastGC |-> lg]

\* pickOutcome once the session key and the eligible candidates are known.
pickOutcomeWith(sessionKey, got) ==
    IF got.err # ""
    THEN [bindings |-> bindings, lastGC |-> lastGC, id |-> "", err |-> got.err]
    ELSE pickLocked(bindings, lastGC, now, Provider, sessionKey, got.available)

\* Pick for a request with a session key as a function of the state: what
\* it returns and the selector it leaves.
pickOutcome(opts, model, order) ==
    pickOutcomeWith(extractStickySessionKey(opts),
                    getAvailableAuths([i \in 1..Len(order) |-> auths[order[i]]],
                                      model, now))

\* What Pick returns and leaves, for each request of a session and each
\* order of the candidates.
PickOutcomes ==
    [opts \in Requests, order \in Orders |-> pickOutcome(opts, "gpt-test", order)]

\* The preview a registry call keeps, taken while sessions are bound.
TakePreview ==
    IF DOMAIN bindings = {} THEN NoPreview
    ELSE [valid |-> TRUE, outcomes |-> PickOutcomes]

\* What every return of Pick leaves: the selector sel, the outcome handed
\* to the caller, and the history h.
PickReturn(sessionKey, model, sel, id, err, hh) ==
    /\ bindings' = sel.bindings
    /\ lastGC' = sel.lastGC
    /\ ret' = [sessionKey |-> sessionKey, model |-> model, id |-> id, err |-> err,
               call |-> "Pick", statuses |-> {}]
    /\ hist' = hh
    /\ UNCHANGED <<now, auths>>
    /\ UNCHANGED nonSelector
    /\ preview' = NoPreview

\* Pick for a request with a session key; r is what pickLocked leaves.
PickSticky(sessionKey, model, elig, r) ==
    PickReturn(sessionKey, model, r, r.id, r.err,
               [hist EXCEPT ![sessionKey] =
                   IF r.err # "" THEN NoHist
                   ELSE HistAfter(hist[sessionKey], r.id, now, elig,
                       /\ BindingKey(Provider, sessionKey) \in DOMAIN bindings
                       /\ now >= bindings[BindingKey(Provider, sessionKey)].expiresAt)])

\* Pick once the session key and the eligible candidates are known.
PickWith(sessionKey, model, got) ==
    IF got.err # ""
    THEN PickReturn(sessionKey, model, pickUnlocked(bindings, lastGC, now),
                    "", got.err,
                    [k \in SessionKeys |->
                        IF k = sessionKey THEN NoHist ELSE hist[k]])
    ELSE IF sessionKey = <<>>
    THEN \* s.rr.Pick: some eligible candidate, in round-robin order
         \E i \in 1..Len(got.available) :
            PickReturn(sessionKey, model, pickUnlocked(bindings, lastGC, now),
                       got.available[i].id, "", hist)
    ELSE PickSticky(sessionKey, model, IdsOf(got.available),
                    pickLocked(bindings, lastGC, now, Provider, sessionKey,
                               got.available))

\* StickySelector.Pick(ctx, provider, model, opts, auths)
Pick(opts, model, order) ==
    PickWith(extractStickySessionKey(opts), model,
             getAvailableAuths([i \in 1..Len(order) |-> auths[order[i]]],
                               model, now))

\* The test of the loop of SessionBindingStatuses: the binding is counted.
statsCounted(binding, t) == ~(binding.authID = "" \/ t > binding.expiresAt)

MaxOf(S) == CHOOSE j \in S : \A k \in S : j >= k

\* The entry of stats for one record: counted is the set of the keys of
\* its counted bindings.
statsEntry(b, id, counted) ==
    [auth_id       |-> id,
     session_count |-> Cardinality(counted),
     last_used_at  |-> MaxOf({b[k].lastUsedAt : k \in counted})]

\* stats: one entry per record with a counted binding.
bindingStats(b, t) ==
    {statsEntry(b, id, {k \in DOMAIN b :
                          statsCounted(b[k], t) /\ b[k].authID = id}) :
        id \in {b[k].authID : k \in {x \in DOMAIN b : statsCounted(b[x], t)}}}

\* The condition under which SessionBindingStatuses calls gcLocked.
statusesNeedGC(b, lg, t) ==
    \/ Cardinality(DOMAIN b) >= stickyGCMinEntries
    \/ lg = 0
    \/ t - lg >= stickyGCInterval

\* SessionBindingStatuses once the GC is done.
statusesAfterGC(g, t) ==
    [bindings |-> g.bindings, lastGC |-> g.lastGC,
     out |-> bindingStats(g.bindings, t)]

\* What SessionBindingStatuses leaves of the selector and returns (out).
bindingStatuses(b, lg, t) ==
    IF DOMAIN b = {}
    THEN [bindings |-> b, lastGC |-> lg, out |-> {}]
    ELSE statusesAfterGC(IF statusesNeedGC(b, lg, t) THEN gcLocked(b, t)
                         ELSE [bindings |-> b, lastGC |-> lg], t)

\* What the return of SessionBindingStatuses leaves; pv is what is kept of
\* the state before the call.
StatusesReturnWith(r, pv) ==
    /\ bindings' = r.bindings
    /\ lastGC' = r.lastGC
    /\ ret' = [NoRet EXCEPT !.call = "SessionBindingStatuses",
                            !.statuses = r.out]
    /\ UNCHANGED <<now, auths, hist>>
    /\ UNCHANGED nonSelector
    /\ preview' = pv

StatusesReturn(r) == StatusesReturnWith(r, NoPreview)

\* StickySelector.SessionBindingStatuses()
SessionBindingStatuses == StatusesReturn(bindingStatuses(bindings, lastGC, now))

\* SetDisabled that toggles the flag and leaves status as it is.
SetDisabledFlagOnly(id, d) ==
    /\ auths[id].disabled # d
    /\ auths' = [auths EXCEPT ![id].disabled = d]
    /\ ret' = NoRet
    /\ UNCHANGED <<now, bindings, lastGC, hist>>
    /\ UNCHANGED nonSelector
    /\ preview' = NoPreview

\* PUT /auth-files/disabled {id, disabled}
SetDisabled(id, d) ==
    /\ auths[id].disabled # d
    /\ auths' = [auths EXCEPT ![id].disabled = d,
                              ![id].status = IF d THEN "disabled" ELSE "active"]
    /\ ret' = NoRet
    /\ UNCHANGED <<now, bindings, lastGC, hist>>
    /\ UNCHANGED nonSelector
    /\ preview' = NoPreview

\* HTTP 429 with Retry-After on a request sent with the record
RateLimited(id) ==
    /\ now < RetryAt
    /\ \A m \in Models : IsEligible(auths[id], m, now)
    /\ auths' = [auths EXCEPT ![id].quota =
                    [exceeded |-> TRUE, nextRecoverAt |-> RetryAt]]
    /\ ret' = NoRet
    /\ UNCHANGED <<now, bindings, lastGC, hist>>
    /\ UNCHANGED nonSelector
    /\ preview' = NoPreview

\* the record fails for one model: modelStates[model] unavailable
CoolModel(id, model) ==
    /\ now < RetryAt
    /\ \A m \in Models : IsEligible(auths[id], m, now)
    /\ auths' = [auths EXCEPT ![id].modelStates =
                    [m \in Models |-> IF m = model THEN CooledUntil(RetryAt)
                                      ELSE NoModelState]]
    /\ ret' = NoRet
    /\ UNCHANGED <<now, bindings, lastGC, hist>>
    /\ UNCHANGED nonSelector
    /\ preview' = NoPreview

Next ==
    \/ Tick
    \/ \E opts \in Requests, model \in Models, order \in Orders :
          Pick(opts, model, order)
    \/ \E id \in DisableIds, d \in BOOLEAN : SetDisabled(id, d)
    \/ \E id \in QuotaIds : RateLimited(id)
    \/ \E id \in CooldownIds, model \in CooldownModels : CoolModel(id, model)

Spec == Init /\ [][Next]_vars

\* Three sessions on records that stay eligible.
NextLoad ==
    \/ Tick
    \/ \E opts \in RequestsLoad, order \in Orders :
          Pick(opts, "gpt-test", order)

SpecLoad == Init /\ [][NextLoad]_vars

\* Two sessions while an operator disables and enables any of the records.
NextOutage ==
    \/ Tick
    \/ \E opts \in Requests, order \in Orders : Pick(opts, "gpt-test", order)
    \/ \E id \in Ids, d \in BOOLEAN : SetDisabled(id, d)

SpecOutage == Init /\ [][NextOutage]_vars

\* Three sessions and the listing of their bindings.
NextStatus ==
    \/ Tick
    \/ \E opts \in RequestsLoad, order \in Orders :
          Pick(opts, "gpt-test", order)
    \/ SessionBindingStatuses

SpecStatus == Init /\ [][NextStatus]_vars

\* Two sessions and requests that carry nothing to key a session on.
RequestsAny == Requests \cup {NoOpts}

NextKeyless ==
    \/ Tick
    \/ \E opts \in RequestsAny, order \in Orders :
          Pick(opts, "gpt-test", order)

SpecKeyless == Init /\ [][NextKeyless]_vars

\* Two sessions, an operator who disables and enables records, and the
\* listing of the bindings.  The selector has two entry points, Pick and
\* SessionBindingStatuses, and removes a binding only in gcLocked and in
\* Pick's drop of the caller's own stale binding: a change of a record
\* reaches the bindings through one of these two calls.
NextDisable ==
    \/ Tick
    \/ \E opts \in Requests, order \in Orders : Pick(opts, "gpt-test", order)
    \/ \E id \in DisableIds, d \in BOOLEAN : SetDisabled(id, d)
    \/ SessionBindingStatuses

SpecDisable == Init /\ [][NextDisable]_vars


-----------------------------------------------------------------------------
(* The quota snapshot registries of package usage *)

\* Delete that empties the registry.
deleteAllSnapshots(m, authID) ==
    IF authID = "" THEN m ELSE [id \in DOMAIN m |-> NoSnapshot]

\* UpdateCodexQuotaSnapshot(authID, snapshot) on the map m
updateSnapshot(m, authID, snapshot) ==
    IF authID = "" \/ ~snapshot.present THEN m
    ELSE [m EXCEPT ![authID] = snapshot]

\* DeleteCodexQuotaSnapshot(authID) on the map m
deleteSnapshot(m, authID) ==
    IF authID = "" THEN m ELSE [m EXCEPT ![authID] = NoSnapshot]

\* GetCodexQuotaSnapshot(authID) on the map m: a copy of the stored value
getSnapshot(m, authID) ==
    IF authID = "" THEN NoSnapshot
    ELSE IF authID \in DOMAIN m /\ m[authID].present THEN m[authID]
    ELSE NoSnapshot

\* The authIDs and the snapshots the callers pass.
SnapshotArgs == SnapshotIds \cup {""}
Snapshots == {NoSnapshot, Snapshot("team", 12, 1), Snapshot("plus", 90, 2)}

\* qlast after a call for the authID: op is "Update" or "Delete".
qlastAfter(op, reg, authID, snapshot) ==
    IF authID \in SnapshotIds /\ (op = "Delete" \/ snapshot.present)
    THEN [qlast EXCEPT ![reg][authID] = [op |-> op, snapshot |-> snapshot]]
    ELSE qlast

\* A call on a registry returns.
QuotaReturn(fn, reg, authID, snapshot, m, out) ==
    /\ quota' = [quota EXCEPT ![reg] = m]
    /\ call' = [fn |-> fn,
                arg |-> [reg |-> reg, id |-> authID, snapshot |-> snapshot],
                out |-> out]
    /\ preview' = TakePreview
    /\ UNCHANGED selectorVars
    /\ UNCHANGED <<poll, kiroVars>>

UpdateQuotaSnapshot(reg, authID, snapshot) ==
    /\ QuotaReturn("UpdateQuotaSnapshot", reg, authID, snapshot,
                   updateSnapshot(quota[reg], authID, snapshot), NoSnapshot)
    /\ qlast' = qlastAfter("Update", reg, authID, snapshot)

DeleteQuotaSnapshot(reg, authID) ==
    /\ QuotaReturn("DeleteQuotaSnapshot", reg, authID, NoSnapshot,
                   deleteSnapshot(quota[reg], authID), NoSnapshot)
    /\ qlast' = qlastAfter("Delete", reg, authID, NoSnapshot)

GetQuotaSnapshot(reg, authID) ==
    /\ QuotaReturn("GetQuotaSnapshot", reg, authID, NoSnapshot,
                   quota[reg], getSnapshot(quota[reg], authID))
    /\ UNCHANGED qlast

NextQuota ==
    \/ \E reg \in Registries, authID \in SnapshotArgs, snapshot \in Snapshots :
          UpdateQuotaSnapshot(reg, authID, snapshot)
    \/ \E reg \in Registries, authID \in SnapshotArgs :
          DeleteQuotaSnapshot(reg, authID)
    \/ \E reg \in Registries, authID \in SnapshotArgs :
          GetQuotaSnapshot(reg, authID)

SpecQuota == Init /\ [][NextQuota]_vars

\* Two sessions while snapshots of record a come and go.
NextAdvisory ==
    \/ Tick
    \/ \E opts \in Requests, order \in Orders : Pick(opts, "gpt-test", order)
    \/ \E reg \in Registries :
          UpdateQuotaSnapshot(reg, "a", Snapshot("plus", 90, 2))
    \/ \E reg \in Registries : DeleteQuotaSnapshot(reg, "a")

SpecAdvisory == Init /\ [][NextAdvisory]_vars

-----------------------------------------------------------------------------
(* Device-code polling of the Copilot login; time in seconds from the call *)

defaultPollInterval == 5
maxPollDuration == 900

\* The first interval without the lower limit.
pollIntervalRaw(server) == server

\* interval := deviceCode.Interval seconds, at least defaultPollInterval
pollInterval(server) ==
    IF server < defaultPollInterval THEN defaultPollInterval ELSE server

\* The deadline without the expiry of the device code.
pollDeadlineCapOnly(expiresIn) == maxPollDuration

\* deadline: maxPollDuration from now, or the code's expiry when it has
\* one that comes earlier
pollDeadline(expiresIn) ==
    IF expiresIn > 0 /\ expiresIn < maxPollDuration THEN expiresIn
    ELSE maxPollDuration

\* deviceCode.Interval, deviceCode.ExpiresIn and the answers of the token
\* endpoint as exchangeDeviceCode classifies them.
ServerIntervals == {0 - 1, 0, 3, 5, 8, 400}
ExpiresInValues == {0, 20, 1800}
Responses ==
    {"authorization_pending", "slow_down", "expired_token", "access_denied",
     "server_error", "token_exchange_failed", "token"}

\* PollForToken(ctx, nil)
PollForTokenNil ==
    /\ poll.pc \in {"idle", "done"}
    /\ poll' = [NoPoll EXCEPT !.pc = "done", !.err = "token_exchange_failed"]
    /\ UNCHANGED <<selectorVars, call, quotaVars, kiroVars>>

\* PollForToken(ctx, deviceCode) up to the start of its ticker
PollForToken(server, expiresIn) ==
    /\ poll.pc \in {"idle", "done"}
    /\ poll' = [NoPoll EXCEPT !.pc = "waiting", !.server = server,
                              !.expiresIn = expiresIn,
                              !.interval = pollInterval(server),
                              !.deadline = pollDeadline(expiresIn)]
    /\ UNCHANGED <<selectorVars, call, quotaVars, kiroVars>>

\* A loop that never looks at the deadline.
pollAnsweredNoDeadline(p, t, response) ==
    IF response = "authorization_pending"
    THEN [p EXCEPT !.elapsed = t, !.polls = p.polls + 1, !.last = response]
    ELSE IF response = "slow_down"
    THEN [p EXCEPT !.elapsed = t, !.polls = p.polls + 1, !.last = response,
                   !.interval = p.interval + 5]
    ELSE [p EXCEPT !.pc = "done", !.elapsed = t, !.polls = p.polls + 1,
                   !.last = response,
                   !.err = IF response = "token" THEN "" ELSE response]

\* What the loop does with the answer once the ticker fired at time t.
pollAnswered(p, t, response) ==
    IF t > p.deadline
    THEN [p EXCEPT !.pc = "done", !.elapsed = t, !.polls = p.polls + 1,
                   !.last = "", !.err = "polling_timeout"]
    ELSE IF response = "authorization_pending"
    THEN [p EXCEPT !.elapsed = t, !.polls = p.polls + 1, !.last = response]
    ELSE IF response = "slow_down"
    THEN [p EXCEPT !.elapsed = t, !.polls = p.polls + 1, !.last = response,
                   !.interval = p.interval + 5]
    ELSE [p EXCEPT !.pc = "done", !.elapsed = t, !.polls = p.polls + 1,
                   !.last = response,
                   !.err = IF response = "token" THEN "" ELSE response]

\* exchangeDeviceCode with a context that lets every answer through.
exchangedAnyway(cancelled, response) == response

\* What exchangeDeviceCode returns: with a cancelled context
\* c.httpClient.Do fails and the failure is wrapped as
\* token_exchange_failed, whatever the endpoint would have answered.
exchanged(cancelled, response) ==
    IF cancelled THEN "token_exchange_failed" ELSE response

\* case <-ticker.C: one turn of the loop.  The select may take this case
\* while ctx.Done() is ready too.
PollTick(response) ==
    /\ poll.pc = "waiting"
    /\ poll.polls < MaxPolls
    /\ poll' = pollAnswered(poll, poll.elapsed + poll.interval,
                            exchanged(poll.cancelled, response))
    /\ UNCHANGED <<selectorVars, call, quotaVars, kiroVars>>

\* The caller cancels ctx while PollForToken runs.
CtxCancel ==
    /\ poll.pc = "waiting"
    /\ ~poll.cancelled
    /\ poll' = [poll EXCEPT !.cancelled = TRUE]
    /\ UNCHANGED <<selectorVars, call, quotaVars, kiroVars>>

\* case <-ctx.Done()
PollCancelled ==
    /\ poll.pc = "waiting"
    /\ poll.cancelled
    /\ poll' = [poll EXCEPT !.pc = "done", !.last = "",
                            !.err = "polling_timeout"]
    /\ UNCHANGED <<selectorVars, call, quotaVars, kiroVars>>

NextPoll ==
    \/ PollForTokenNil
    \/ \E server \in ServerIntervals, expiresIn \in ExpiresInValues :
          PollForToken(server, expiresIn)
    \/ \E response \in Responses : PollTick(response)
    \/ CtxCancel
    \/ PollCancelled

SpecPoll == Init /\ [][NextPoll]_vars

\* The calls whose deadline the ticker passes within MaxPolls ticks.
PollsToDeadline(server, expiresIn) ==
    pollDeadline(expiresIn) < MaxPolls * pollInterval(server)

NextPollLive ==
    \/ PollForTokenNil
    \/ \E server \in ServerIntervals, expiresIn \in ExpiresInValues :
          /\ PollsToDeadline(server, expiresIn)
          /\ PollForToken(server, expiresIn)
    \/ \E response \in Responses : PollTick(response)
    \/ CtxCancel
    \/ PollCancelled

\* The ticker keeps firing and every exchange returns: a turn of the loop
\* is taken as long as the call has not returned.
SpecPollLive ==
    /\ Init
    /\ [][NextPollLive]_vars
    /\ WF_vars(\E response \in Responses : PollTick(response))

-----------------------------------------------------------------------------
(* The callback of the authorization-code flow of Kiro (package kiro) *)

\* The texts the code looks for and the texts of the inputs.
SCODE == <<"c","o","d","e">>
SSTATE == <<"s","t","a","t","e">>
SERROR == <<"e","r","r","o","r">>
SHTTP == <<"h","t","t","p",":","/","/">>
SHTTPS == <<"h","t","t","p","s",":","/","/">>
SKIRO == <<"k","i","r","o",":","/","/">>
SC1 == <<"c","1">>
SST == <<"s","t">>
SOT == <<"o","t">>
SDENIED == <<"d","e","n","i","e","d">>
BHTTP == <<"h","t","t","p",":","/","/","h",":","1","/","c","b">>
BHTTPS == <<"h","t","t","p","s",":","/","/","h","/","c","b">>
BKIRO == <<"k","i","r","o",":","/","/","k",".","a","/","o","k">>
BHOST == <<"h","t","t","p",":","/","/","h">>

\* The index of the first c in s, 0 when there is none.
IndexOfChar(s, c) ==
    IF \E i \in 1..Len(s) : s[i] = c
    THEN MinOf({i \in 1..Len(s) : s[i] = c}) ELSE 0

\* strings.Cut(s, c) once the index of c is known
cutAtIndex(s, i) ==
    IF i = 0 THEN [before |-> s, after |-> <<>>, found |-> FALSE]
    ELSE [before |-> SubSeq(s, 1, i - 1), after |-> SubSeq(s, i + 1, Len(s)),
          found |-> TRUE]

\* strings.Cut(s, c)
Cut(s, c) == cutAtIndex(s, IndexOfChar(s, c))

HexChars == <<"0","1","2","3","4","5","6","7","8","9",
              "a","b","c","d","e","f","A","B","C","D","E","F">>
IsHex(c) == \E i \in 1..Len(HexChars) : HexChars[i] = c

\* The characters the escapes of the inputs stand for: %20, %26 and %3D.
PercentChar(hi, lo) ==
    CASE hi = "2" /\ lo = "0" -> " "
      [] hi = "2" /\ lo = "6" -> "&"
      [] hi = "3" /\ lo \in {"D", "d"} -> "="
      [] OTHER -> "?"

\* url.QueryUnescape(s): ok is FALSE for a % that two hex digits do not
\* follow.
RECURSIVE QueryUnescape(_)
unescapeCons(c, rest) ==
    [ok |-> rest.ok, v |-> IF rest.ok THEN <<c>> \o rest.v ELSE <<>>]
QueryUnescape(s) ==
    IF s = <<>> THEN [ok |-> TRUE, v |-> <<>>]
    ELSE IF Head(s) = "+" THEN unescapeCons(" ", QueryUnescape(Tail(s)))
    ELSE IF Head(s) = "%"
    THEN IF Len(s) >= 3 /\ IsHex(s[2]) /\ IsHex(s[3])
         THEN unescapeCons(PercentChar(s[2], s[3]),
                           QueryUnescape(SubSeq(s, 4, Len(s))))
         ELSE [ok |-> FALSE, v |-> <<>>]
    ELSE unescapeCons(Head(s), QueryUnescape(Tail(s)))

\* The loop of url.parseQuery: pairs are the key-value pairs in the order
\* of the query, err whether some pair was dropped as malformed.
RECURSIVE parseQuery(_)
parseQueryPair(kv, key, value, rest) ==
    IF ~key.ok \/ ~value.ok THEN [pairs |-> rest.pairs, err |-> TRUE]
    ELSE [pairs |-> <<[k |-> key.v, v |-> value.v]>> \o rest.pairs,
          err |-> rest.err]
parseQueryPart(part, rest) ==
    IF IndexOfChar(part.before, ";") # 0
    THEN [pairs |-> rest.pairs, err |-> TRUE]
    ELSE IF part.before = <<>> THEN rest
    ELSE parseQueryPair(Cut(part.before, "="),
                        QueryUnescape(Cut(part.before, "=").before),
                        QueryUnescape(Cut(part.before, "=").after), rest)
parseQueryFrom(part) == parseQueryPart(part, parseQuery(part.after))
parseQuery(query) ==
    IF query = <<>> THEN [pairs |-> <<>>, err |-> FALSE]
    ELSE parseQueryFrom(Cut(query, "&"))

\* url.Values.Get(key): the first value of the key, "" without one
ValuesGet(pairs, key) ==
    IF \E i \in 1..Len(pairs) : pairs[i].k = key
    THEN pairs[MinOf({i \in 1..Len(pairs) : pairs[i].k = key})].v
    ELSE <<>>

\* url.Parse for an input that starts with scheme://, whose host and path
\* carry no escapes: the fragment is cut off, then the query; the
\* authority runs to the next "/".  It fails for a control character and
\* for a blank in the host.
parseURLParts(scheme, authority, query) ==
    [ok       |-> /\ IndexOfChar(authority.before, " ") = 0
                  /\ \A c \in {"\t", "\n", "\r"} :
                        IndexOfChar(authority.before \o authority.after, c) = 0
                        /\ IndexOfChar(query.after, c) = 0,
     scheme   |-> scheme,
     host     |-> authority.before,
     path     |-> IF authority.found THEN <<"/">> \o authority.after ELSE <<>>,
     rawQuery |-> query.after]
parseURLRest(scheme, query) ==
    parseURLParts(scheme, Cut(query.before, "/"), query)
parseURLScheme(scheme, rest) ==
    parseURLRest(scheme.before,
                 Cut(Cut(SubSeq(rest, 3, Len(rest)), "#").before, "?"))
urlParse(input) ==
    parseURLScheme(Cut(input, ":"), Cut(input, ":").after)

\* What parseOAuthCallbackInput returns: err is the message of the error
\* ("" for nil).
CallbackParsed(code, state, errParam, redirectURI, err) ==
    [code |-> code, state |-> state, error |-> errParam,
     redirectURI |-> redirectURI, err |-> err]
CallbackFailed(err) == CallbackParsed(<<>>, <<>>, <<>>, <<>>, err)

\* parseOAuthCallbackInput from the values of the three parameters on
callbackFrom(code, state, errParam, redirectURI) ==
    IF errParam # <<>>
    THEN CallbackParsed(<<>>, state, errParam, redirectURI, "")
    ELSE IF code = <<>> THEN CallbackFailed("missing code in callback")
    ELSE IF state = <<>> THEN CallbackFailed("missing state in callback")
    ELSE CallbackParsed(code, state, errParam, redirectURI, "")

callbackFromPairs(pairs, redirectURI) ==
    callbackFrom(ValuesGet(pairs, SCODE), ValuesGet(pairs, SSTATE),
                 ValuesGet(pairs, SERROR), redirectURI)

callbackFromURL(u) ==
    IF ~u.ok THEN CallbackFailed("invalid callback URL")
    ELSE callbackFromPairs(parseQuery(u.rawQuery).pairs,
                           u.scheme \o <<":","/","/">> \o u.host \o u.path)

callbackFromQuery(q) ==
    IF q.err THEN CallbackFailed("invalid callback query")
    ELSE callbackFromPairs(q.pairs, <<>>)

callbackFromInput(input) ==
    IF input = <<>> THEN CallbackFailed("empty callback input")
    ELSE IF \/ HasPrefix(input, SHTTP)
            \/ HasPrefix(input, SHTTPS)
            \/ HasPrefix(input, SKIRO)
    THEN callbackFromURL(urlParse(input))
    ELSE callbackFromQuery(parseQuery(input))

\* parseOAuthCallbackInput that reads the input as it was typed.
parseOAuthCallbackInputUntrimmed(raw) == callbackFromInput(raw)

\* parseOAuthCallbackInput(raw)
parseOAuthCallbackInput(raw) == callbackFromInput(TrimSpace(raw))

\* parseAndValidateCallbackInput that compares no states.
validatedAnyState(expectedState, parsed) ==
    IF parsed.err # "" THEN [callback |-> <<>>, redirectURI |-> <<>>, err |-> parsed.err]
    ELSE [callback |-> <<[Code |-> parsed.code, State |-> parsed.state,
                    Error |-> parsed.error]>>,
          redirectURI |-> parsed.redirectURI, err |-> ""]

\* parseAndValidateCallbackInput once the input is parsed: callback is the
\* *AuthCallback, <<>> for nil.
validated(expectedState, parsed) ==
    IF parsed.err # "" THEN [callback |-> <<>>, redirectURI |-> <<>>, err |-> parsed.err]
    ELSE IF expectedState # <<>> /\ parsed.state # <<>>
            /\ parsed.state # expectedState
    THEN [callback |-> <<>>, redirectURI |-> <<>>, err |-> "state mismatch"]
    ELSE [callback |-> <<[Code |-> parsed.code, State |-> parsed.state,
                    Error |-> parsed.error]>>,
          redirectURI |-> parsed.redirectURI, err |-> ""]

\* parseAndValidateCallbackInput(expectedState, raw)
parseAndValidateCallbackInput(expectedState, raw) ==
    validated(expectedState, parseOAuthCallbackInput(raw))

\* LoginWithSocial that goes on to the exchange whatever the state is.
loginAfterCallbackAnyState(state, callback) ==
    IF callback.Error # <<>> THEN "authentication error"
    ELSE IF callback.Code = <<>> THEN "no authorization code received"
    ELSE "CreateToken"

\* LoginWithSocial from the callback to the exchange: the error it returns,
\* or "CreateToken" when it goes on to exchange the code.
loginAfterCallback(state, callback) ==
    IF callback.Error # <<>> THEN "authentication error"
    ELSE IF callback.State # state THEN "OAuth state validation failed"
    ELSE IF callback.Code = <<>> THEN "no authorization code received"
    ELSE "CreateToken"

\* A parameter of a callback: absent, empty, or with a value.
NoParam == [has |-> FALSE, v |-> <<>>]
Param(v) == [has |-> TRUE, v |-> v]

CodeParams == {NoParam, Param(<<>>), Param(SC1)}
StateParams == {NoParam, Param(<<>>), Param(SST), Param(SOT)}
ErrorParams == {NoParam, Param(<<>>), Param(SDENIED)}

\* The state generateStateParam made for the login.
ExpectedState == SST

\* Where the callback was copied from: the loopback server, the kiro://
\* redirect, or the query alone ("" as base).
CallbackBases == {BHTTP, BHTTPS, BKIRO, BHOST, <<>>}
Leads == {<<>>, <<" ">>}
Trails == {<<>>, <<"\n">>}

\* name=value for a parameter that is there
KeyValue(name, param) ==
    IF param.has THEN <<name \o <<"=">> \o param.v>> ELSE <<>>

RECURSIVE JoinAmp(_)
JoinAmp(parts) ==
    IF parts = <<>> THEN <<>>
    ELSE IF Len(parts) = 1 THEN parts[1]
    ELSE parts[1] \o <<"&">> \o JoinAmp(Tail(parts))

\* The text of a callback with the parameters in the order code, state,
\* error, or the reverse.
QueryText(code, state, errParam, reversed) ==
    JoinAmp(IF reversed
            THEN KeyValue(SERROR, errParam) \o KeyValue(SSTATE, state)
                 \o KeyValue(SCODE, code)
            ELSE KeyValue(SCODE, code) \o KeyValue(SSTATE, state)
                 \o KeyValue(SERROR, errParam))

CallbackTextOf(base, query) ==
    IF base = <<>> \/ query = <<>> THEN base \o query
    ELSE base \o <<"?">> \o query

\* A pasted callback, with what it was made of.
CallbackInput(base, code, state, errParam, reversed, lead, trail) ==
    [base |-> base, code |-> code, state |-> state, error |-> errParam,
     reversed |-> reversed, lead |-> lead, trail |-> trail]

CallbackText(in) ==
    in.lead \o CallbackTextOf(in.base, QueryText(in.code, in.state, in.error,
                                                 in.reversed)) \o in.trail

-----------------------------------------------------------------------------
(* The callback server of the Kiro login: ProtocolHandler *)

\* portRange of Start
portRange ==
    <<DefaultHandlerPort, DefaultHandlerPort + 1, DefaultHandlerPort + 2,
      DefaultHandlerPort + 3, DefaultHandlerPort + 4>>

\* The port of the listener a loop that went through all of portRange and
\* kept the last that could be bound would leave, 0 for none.
RECURSIVE listenLast(_, _)
listenLast(ports, busy) ==
    IF ports = <<>> THEN 0
    ELSE IF listenLast(Tail(ports), busy) # 0
    THEN listenLast(Tail(ports), busy)
    ELSE IF Head(ports) \in busy THEN 0 ELSE Head(ports)

\* The loop of Start over portRange: the port net.Listen binds, 0 when
\* every port is busy and listener stays nil.
RECURSIVE listenFirst(_, _)
listenFirst(ports, busy) ==
    IF ports = <<>> THEN 0
    ELSE IF Head(ports) \in busy THEN listenFirst(Tail(ports), busy)
    ELSE Head(ports)

\* The sets of ports other processes may hold when Start is called.
PortsOf(offsets) == {DefaultHandlerPort + d : d \in offsets}
BusySets == {PortsOf(offsets) : offsets \in SUBSET (0..4)}

\* No port held by others, or all of them.
FreeOrBusy == {PortsOf({}), PortsOf(0..4)}

\* What Start was called with: the ports held by others, and what it
\* found in h.running and in resultChan.
StartCalled(busy) ==
    [busy |-> busy, running |-> h.running, resultChan |-> h.resultChan]

\* Start that leaves resultChan as it finds it.
startLockedUndrained(hh, n, port) ==
    IF port = 0
    THEN [hh EXCEPT !.stopChan = n, !.starts = n]
    ELSE [hh EXCEPT !.stopChan = n, !.starts = n,
                    !.server = n, !.port = port, !.running = TRUE]

\* What Start returns
StartReturn(port, err) == [port |-> port, err |-> err]

\* Start from the draining of resultChan on, for stop channel and
\* instance n and the port that was bound.
startLocked(hh, n, port) ==
    IF port = 0
    THEN [hh EXCEPT !.resultChan = <<>>, !.stopChan = n, !.starts = n]
    ELSE [hh EXCEPT !.resultChan = <<>>, !.stopChan = n, !.starts = n,
                    !.server = n, !.port = port, !.running = TRUE]

\* close(ch) without a look at ch: twice keeps the channels that were
\* closed when already closed, where Go panics.
closeStopChanUnguarded(l, ch) ==
    IF ch \in l.closed THEN [l EXCEPT !.twice = l.twice \cup {ch}]
    ELSE [l EXCEPT !.closed = l.closed \cup {ch}]

\* select { case <-ch: default: close(ch) } of Start and of Stop
closeStopChan(l, ch) ==
    IF ch \in l.closed THEN l
    ELSE [l EXCEPT !.closed = l.closed \cup {ch}]

\* Start(ctx) while the server runs: the port, and nothing else.
StartRunning ==
    /\ h.running
    /\ call' = [fn |-> "Start", arg |-> StartCalled({}),
                out |-> StartReturn(h.port, "")]
    /\ UNCHANGED <<h, live, gor>>

\* Start(ctx) while no server runs, with the ports of busy held by others.
StartStopped(busy, n, port) ==
    /\ ~h.running
    /\ h.starts < MaxStarts
    /\ h' = startLocked(h, n, port)
    /\ live' = [closeStopChan(live, h.stopChan) EXCEPT
                   !.serving = IF port = 0 THEN live.serving
                               ELSE live.serving \cup {n}]
    /\ gor' = IF port = 0 THEN gor
              ELSE [gor EXCEPT ![n] = [pc |-> "select", at |-> clock]]
    /\ call' = [fn |-> "Start", arg |-> StartCalled(busy),
                out |-> IF port = 0
                        THEN StartReturn(0, "all ports are busy")
                        ELSE StartReturn(port, "")]

\* ProtocolHandler.Start(ctx)
Start(busy) ==
    /\ \/ StartRunning
       \/ StartStopped(busy, h.starts + 1, listenFirst(portRange, busy))
    /\ UNCHANGED <<selectorVars, quotaVars, poll, ctxDone, clock, wait, cw>>

\* The fields after Stop, which does nothing unless the server runs.
stopLocked(hh) == [hh EXCEPT !.running = FALSE]

\* What Stop does to the channels and the servers: it closes h.stopChan
\* and shuts h.server down.
stopLive(hh, l) ==
    IF ~hh.running THEN l
    ELSE [closeStopChan(l, hh.stopChan) EXCEPT
             !.serving = l.serving \ {hh.server}]

\* ProtocolHandler.Stop(), called by the login that started the server
Stop ==
    /\ h' = stopLocked(h)
    /\ live' = stopLive(h, live)
    /\ call' = [fn |-> "Stop", arg |-> [running |-> h.running], out |-> <<>>]
    /\ UNCHANGED <<selectorVars, quotaVars, poll, gor, ctxDone, clock, wait,
                   cw>>

\* The cases of the select of the auto-shutdown goroutine i that are ready.
gorReady(i) ==
    {c \in {"ctx", "timer", "stop"} :
        \/ c = "ctx" /\ i \in ctxDone
        \/ c = "timer" /\ clock >= gor[i].at + HandlerTimeout
        \/ c = "stop" /\ i \in live.closed}

\* The select of the auto-shutdown goroutine takes one of its ready cases.
GorSelect(i) ==
    /\ gor[i].pc = "select"
    /\ \E c \in gorReady(i) :
          gor' = [gor EXCEPT ![i].pc = IF c = "stop" THEN "done" ELSE "lock"]
    /\ call' = NoCall
    /\ UNCHANGED <<selectorVars, nonSelectorButGor>>

\* The test the goroutine of instance i makes with h.mu held:
\* h.server == currentServer && h.listener == currentListener
stillCurrent(hh, i) == hh.server = i

\* The goroutine locks h.mu, tests the instance and unlocks.
GorCheck(i) ==
    /\ gor[i].pc = "lock"
    /\ gor' = [gor EXCEPT ![i].pc = IF stillCurrent(h, i) THEN "stop"
                                    ELSE "done"]
    /\ call' = NoCall
    /\ UNCHANGED <<selectorVars, nonSelectorButGor>>

\* The goroutine calls h.Stop() after it unlocked h.mu.
GorStop(i) ==
    /\ gor[i].pc = "stop"
    /\ h' = stopLocked(h)
    /\ live' = stopLive(h, live)
    /\ gor' = [gor EXCEPT ![i].pc = "done"]
    /\ call' = NoCall
    /\ UNCHANGED <<selectorVars, quotaVars, poll, ctxDone, clock, wait, cw>>

\* The callbacks the browser sends: one with a code, one with an error.
\* run is the server that received it (not program state).
Callbacks == {[Code |-> "c1", Error |-> ""], [Code |-> "", Error |-> "denied"]}
received(cb, i) == [Code |-> cb.Code, Error |-> cb.Error, run |-> i]

\* A send that takes the place of what the channel holds.
sendReplacing(ch, r) == <<r>>

\* select { case h.resultChan <- result: default: } on the channel of
\* capacity 1
sendNonBlocking(ch, r) == IF ch = <<>> THEN <<r>> ELSE ch

\* handleCallback on server i: the send on resultChan that does not block
HandleCallback(i, cb) ==
    /\ i \in live.serving
    /\ h' = [h EXCEPT !.resultChan = sendNonBlocking(h.resultChan,
                                                     received(cb, i))]
    /\ call' = [fn |-> "handleCallback",
                arg |-> [server |-> i, pending |-> h.resultChan],
                out |-> received(cb, i)]
    /\ UNCHANGED <<selectorVars, quotaVars, poll, live, gor, ctxDone, clock,
                   wait, cw>>

\* The caller of login i cancels its context.
CancelContext(i) ==
    /\ i \notin ctxDone
    /\ ctxDone' = ctxDone \cup {i}
    /\ call' = NoCall
    /\ UNCHANGED <<selectorVars, quotaVars, poll, h, live, gor, clock,
                   wait, cw>>

\* A wait whose timer never fires.
waitExpiryNever(w) == MaxClock + HandlerTimeout

\* When the timer of time.After(HandlerTimeout) in WaitForCallback fires.
waitExpiry(w) == w.start + HandlerTimeout

\* The cases of the select of WaitForCallback that are ready.
waitReady ==
    {c \in {"ctx", "timer", "result"} :
        \/ c = "ctx" /\ wait.ctx \in ctxDone
        \/ c = "timer" /\ clock >= waitExpiry(wait)
        \/ c = "result" /\ h.resultChan # <<>>}

\* WaitForCallback(ctx) is called under the context of login c, while the
\* clock of the model can still reach the end of its timer.
WaitForCallback(c) ==
    /\ wait.pc = "idle"
    /\ clock + HandlerTimeout <= MaxClock
    /\ wait' = [pc |-> "waiting", ctx |-> c, start |-> clock,
                gen |-> h.starts]
    /\ call' = NoCall
    /\ UNCHANGED <<selectorVars, quotaVars, poll, h, live, gor, ctxDone,
                   clock, cw>>

\* What WaitForCallback returns by the case c of its select: callback is
\* <<>> for nil.
waitReturned(c) ==
    CASE c = "ctx" -> [callback |-> <<>>, err |-> "context canceled"]
      [] c = "timer" -> [callback |-> <<>>,
                         err |-> "timeout waiting for OAuth callback"]
      [] OTHER -> [callback |-> h.resultChan, err |-> ""]

\* The select of WaitForCallback takes one of its ready cases and returns.
WaitReturn ==
    /\ wait.pc = "waiting"
    /\ \E c \in waitReady :
          /\ h' = IF c = "result" THEN [h EXCEPT !.resultChan = <<>>] ELSE h
          /\ call' = [fn |-> "WaitForCallback",
                      arg |-> [ctx |-> wait.ctx, start |-> wait.start,
                               gen |-> wait.gen, at |-> clock,
                               cancelled |-> wait.ctx \in ctxDone],
                      out |-> waitReturned(c)]
    /\ wait' = NoWait
    /\ UNCHANGED <<selectorVars, quotaVars, poll, live, gor, ctxDone, clock,
                   cw>>

\* The clock of the model goes in steps of half the timeout.
ClockStep == HandlerTimeout \div 2

\* d minutes pass.  A select with a ready case is taken before time
\* passes, and time does not pass beyond the instant a timer of
\* WaitForCallback fires.
ClockTick(d) ==
    /\ clock + d <= MaxClock
    /\ wait.pc = "waiting" =>
          waitReady = {} /\ clock + d <= waitExpiry(wait)
    /\ clock' = clock + d
    /\ call' = NoCall
    /\ UNCHANGED <<selectorVars, quotaVars, poll, h, live, gor, ctxDone,
                   wait, cw>>

NextHandler ==
    \/ \E busy \in FreeOrBusy : Start(busy)
    \/ Stop
    \/ \E i \in Instances : GorSelect(i) \/ GorCheck(i) \/ GorStop(i)
    \/ \E i \in Instances, cb \in Callbacks : HandleCallback(i, cb)
    \/ \E i \in Instances : CancelContext(i)
    \/ \E c \in Instances : WaitForCallback(c)
    \/ WaitReturn
    \/ ClockTick(ClockStep)

SpecHandler == Init /\ [][NextHandler]_vars

\* The calls of Start and Stop alone, with every set of busy ports.
NextPorts ==
    \/ \E busy \in BusySets : Start(busy)
    \/ Stop

SpecPorts == Init /\ [][NextPorts]_vars

\* The Go scheduler runs every goroutine that can run: each step of the
\* auto-shutdown goroutines and the return of WaitForCallback is taken
\* once it stays possible, and time goes on.
FairHandler ==
    /\ \A i \in Instances :
          /\ WF_vars(GorSelect(i))
          /\ WF_vars(GorCheck(i))
          /\ WF_vars(GorStop(i))
    /\ WF_vars(WaitReturn)
    /\ WF_vars(ClockTick(ClockStep))

SpecHandlerFair == SpecHandler /\ FairHandler

-----------------------------------------------------------------------------
(* waitForOAuthCallback of package kiro *)

\* A result the goroutines send: callback is where the callback came from
\* ("" for a nil callback), err the error ("" for nil).
CwResult(callback, err) == [callback |-> callback, err |-> err]

\* waitCtx.Err() != nil: waitCtx is cancelled by cancel() and with ctx.
waitCtxDone(w) == w.cancelled \/ w.ctxDone

\* waitForOAuthCallback(ctx, expectedState, defaultRedirectURI, waitFn,
\* promptFn) with both arguments in order, up to its loop: the two
\* goroutines are started, the second when promptFn is not nil.
CwCall(prompt) ==
    /\ cw.pc = "idle"
    /\ cw' = [cw EXCEPT !.pc = "loop", !.prompt = prompt,
                        !.waitG = "waiting",
                        !.promptG = IF prompt THEN "prompting" ELSE "none"]
    /\ UNCHANGED <<selectorVars, quotaVars, poll, call, h, live, gor, ctxDone,
                   clock, wait>>

\* The caller's context is cancelled.
CwCancel ==
    /\ cw.pc # "idle"
    /\ ~cw.ctxDone
    /\ cw' = [cw EXCEPT !.ctxDone = TRUE]
    /\ UNCHANGED <<selectorVars, quotaVars, poll, call, h, live, gor, ctxDone,
                   clock, wait>>

\* The first goroutine: waitFn(waitCtx) returns r and the goroutine sends
\* it and ends.  The channel holds two results, so the send never blocks.
waitSent(w, r) ==
    [w EXCEPT !.waitG = "done", !.resultChan = Append(w.resultChan, r)]

\* waitFn returns because the callback came, because its own timer fired,
\* or with neither callback nor error.
WaitFnReturns(r) ==
    /\ cw.waitG = "waiting"
    /\ cw' = waitSent(cw, r)
    /\ UNCHANGED <<selectorVars, quotaVars, poll, call, h, live, gor, ctxDone,
                   clock, wait>>

\* waitFn returns the error of waitCtx once waitCtx is done.
WaitFnCancelled ==
    /\ cw.waitG = "waiting"
    /\ waitCtxDone(cw)
    /\ cw' = waitSent(cw, CwResult("", "context canceled"))
    /\ UNCHANGED <<selectorVars, quotaVars, poll, call, h, live, gor, ctxDone,
                   clock, wait>>

\* What the user may answer the prompt with: nothing but Enter, a callback
\* with the expected state, one with another state, or the end of input.
PromptAnswers == {"enter", "callback", "mismatch", "eof"}

\* The second goroutine once promptFn has returned
promptSent(w, answer) ==
    CASE answer = "enter" -> [w EXCEPT !.promptG = "done"]
      [] answer = "callback" ->
            [w EXCEPT !.promptG = "done",
                      !.resultChan = Append(w.resultChan,
                                            CwResult("pasted", ""))]
      [] answer = "mismatch" ->
            [w EXCEPT !.promptG = "done",
                      !.resultChan = Append(w.resultChan,
                                            CwResult("", "state mismatch"))]
      [] OTHER ->
            [w EXCEPT !.promptG = "done",
                      !.resultChan = Append(w.resultChan, CwResult("", "EOF"))]

\* The user answers the prompt: promptFn returns and the second goroutine
\* sends what it made of the answer and ends.
PromptReturns(answer) ==
    /\ cw.promptG = "prompting"
    /\ cw' = promptSent(cw, answer)
    /\ UNCHANGED <<selectorVars, quotaVars, poll, call, h, live, gor, ctxDone,
                   clock, wait>>

\* waitForOAuthCallback returns: the deferred cancel() runs.
cwReturned(w, out) == [w EXCEPT !.pc = "returned", !.cancelled = TRUE, !.out = out]

\* case r := <-resultChan of the loop
cwReceived(w, r) ==
    IF r.err # ""
    THEN IF w.prompt /\ waitCtxDone(w) /\ ~w.ctxDone
         THEN w
         ELSE cwReturned(w, r.err)
    ELSE IF r.callback = "" THEN cwReturned(w, "missing callback result")
    ELSE cwReturned(w, r.callback)

\* One turn of the loop: the select takes one of its ready cases.
CwSelect ==
    /\ cw.pc = "loop"
    /\ \/ /\ cw.ctxDone
          /\ cw' = cwReturned(cw, "context canceled")
       \/ /\ cw.resultChan # <<>>
          /\ cw' = cwReceived([cw EXCEPT !.resultChan = Tail(cw.resultChan)],
                              Head(cw.resultChan))
    /\ UNCHANGED <<selectorVars, quotaVars, poll, call, h, live, gor, ctxDone,
                   clock, wait>>

\* What waitFn, which is any function of the caller's, may return of
\* itself: the callback, its own timeout, the cancellation of a context of
\* its own, or neither callback nor error.
WaitFnResults ==
    {CwResult("handler", ""), CwResult("", "timeout waiting for OAuth callback"),
     CwResult("", "context canceled"), CwResult("", "")}

NextCallbackWait ==
    \/ \E prompt \in BOOLEAN : CwCall(prompt)
    \/ CwCancel
    \/ \E r \in WaitFnResults : WaitFnReturns(r)
    \/ WaitFnCancelled
    \/ \E answer \in PromptAnswers : PromptReturns(answer)
    \/ CwSelect

\* The scheduler runs the loop and the first goroutine when they can go
\* on; nothing makes the browser send a callback or the user answer.
SpecCallbackWait ==
    /\ Init
    /\ [][NextCallbackWait]_vars
    /\ WF_vars(CwSelect)
    /\ WF_vars(WaitFnCancelled)

-----------------------------------------------------------------------------
(* Calls of the functions without state *)

Rep(c, n) == [i \in 1..n |-> c]

\* "11111111-2222-3333-4444-555555555555"
UuidDigits ==
    Rep("1", 8) \o <<"-">> \o Rep("2", 4) \o <<"-">> \o Rep("3", 4) \o <<"-">>
        \o Rep("4", 4) \o <<"-">> \o Rep("5", 12)
\* "aaaaaaaa-bbbb-cccc-dddd-eeeeeeeeeeee" and the same in capitals
UuidLetters ==
    Rep("a", 8) \o <<"-">> \o Rep("b", 4) \o <<"-">> \o Rep("c", 4) \o <<"-">>
        \o Rep("d", 4) \o <<"-">> \o Rep("e", 12)
UuidCapitals ==
    Rep("A", 8) \o <<"-">> \o Rep("B", 4) \o <<"-">> \o Rep("C", 4) \o <<"-">>
        \o Rep("D", 4) \o <<"-">> \o Rep("E", 12)

\* Values of metadata.user_id: none, "user_x_account__session_<uuid>",
\* "USER_SESSION_<UUID>", a uuid one character short, "not-a-match".
UserIdDigits ==
    <<"u","s","e","r","_","x","_","a","c","c","o","u","n","t","_","_">>
        \o SessionTag \o UuidDigits
UserIdCapitals ==
    <<"U","S","E","R","_","S","E","S","S","I","O","N","_">> \o UuidCapitals
UserIdShort == SessionTag \o SubSeq(UuidDigits, 1, SessionIdLen - 1)
UserIdOther == <<"n","o","t","-","a","-","m","a","t","c","h">>
UserIdValues ==
    {<<>>, UserIdDigits, UserIdCapitals, UserIdShort, UserIdOther}

\* Values of the header session_id: none, "s1", " s1 ", " ".
SessionIdValues ==
    {<<>>, <<"s","1">>, <<" ","s","1"," ">>, <<" ">>}

\* Values of the header Authorization: none, "Bearer k1", " bearer  k1 ",
\* "k1", "Basic k1", "Bearer ".
AuthBearer == <<"B","e","a","r","e","r"," ","k","1">>
AuthLower  == <<" ","b","e","a","r","e","r"," "," ","k","1"," ">>
AuthRaw    == <<"k","1">>
AuthBasic  == <<"B","a","s","i","c"," ","k","1">>
AuthEmpty  == <<"B","e","a","r","e","r"," ">>
AuthorizationValues ==
    {<<>>, AuthBearer, AuthLower, AuthRaw, AuthBasic, AuthEmpty}

\* Values of x-api-key, x-goog-api-key and User-Agent: none or one value.
XApiKeyValues == {<<>>, <<"k","2">>}
XGoogApiKeyValues == {<<>>, <<"k","3">>}
UserAgentValues == {<<>>, <<"u","a","-","t","e","s","t">>}

KeyRequests ==
    [session_id : SessionIdValues, user_id : UserIdValues,
     authorization : AuthorizationValues, x_api_key : XApiKeyValues,
     x_goog_api_key : XGoogApiKeyValues, user_agent : UserAgentValues]

\* A call of a function without state returns.
Returned(fn, arg, out) ==
    /\ call' = [fn |-> fn, arg |-> arg, out |-> out]
    /\ UNCHANGED selectorVars
    /\ UNCHANGED <<quotaVars, poll, kiroVars>>

\* extractStickySessionKey(opts)
ExtractKey(opts) ==
    Returned("extractStickySessionKey", opts, extractStickySessionKey(opts))

NextKey == \E opts \in KeyRequests : ExtractKey(opts)

\* A value of Metadata["priority"] with its dynamic type, and with what it
\* is as a priority: num (a number is written there) and want (the number).
MetaCase(type, v, n, d, str, num, want) ==
    [val |-> [type |-> type, v |-> v, n |-> n, d |-> d, s |-> str],
     num |-> num, want |-> want]

\* No priority, 10, 0, -2, int64(7), 10.9, -3.5, float32(2.5), "10",
\* " 12 ", "-4", "+3", "007", "high", "", "1.5", true.
MetaCases ==
    {MetaCase("absent", 0, 0, 1, <<>>, FALSE, 0),
     MetaCase("int", 10, 0, 1, <<>>, TRUE, 10),
     MetaCase("int", 0, 0, 1, <<>>, TRUE, 0),
     MetaCase("int", 0 - 2, 0, 1, <<>>, TRUE, 0 - 2),
     MetaCase("int64", 7, 0, 1, <<>>, TRUE, 7),
     MetaCase("float64", 0, 109, 10, <<>>, TRUE, 10),
     MetaCase("float64", 0, 0 - 7, 2, <<>>, TRUE, 0 - 3),
     MetaCase("float32", 0, 5, 2, <<>>, TRUE, 2),
     MetaCase("string", 0, 0, 1, <<"1","0">>, TRUE, 10),
     MetaCase("string", 0, 0, 1, <<" ","1","2"," ">>, TRUE, 12),
     MetaCase("string", 0, 0, 1, <<"-","4">>, TRUE, 0 - 4),
     MetaCase("string", 0, 0, 1, <<"+","3">>, TRUE, 3),
     MetaCase("string", 0, 0, 1, <<"0","0","7">>, TRUE, 7),
     MetaCase("string", 0, 0, 1, <<"h","i","g","h">>, FALSE, 0),
     MetaCase("string", 0, 0, 1, <<>>, FALSE, 0),
     MetaCase("string", 0, 0, 1, <<"1",".","5">>, FALSE, 0),
     MetaCase("bool", 0, 0, 1, <<>>, FALSE, 0)}

\* A value of Attributes["priority"]: none, "5", " 8 ", "+7", "-1", "low".
AttrCases ==
    {[val |-> <<>>, num |-> FALSE, want |-> 0],
     [val |-> <<"5">>, num |-> TRUE, want |-> 5],
     [val |-> <<" ","8"," ">>, num |-> TRUE, want |-> 8],
     [val |-> <<"+","7">>, num |-> TRUE, want |-> 7],
     [val |-> <<"-","1">>, num |-> TRUE, want |-> 0 - 1],
     [val |-> <<"l","o","w">>, num |-> FALSE, want |-> 0]}

\* authPriority(a) for a record with the two values
AuthPriorityOf(meta, attr) ==
    Returned("authPriority", [metadata |-> meta, attributes |-> attr],
             authPriority(NewAuth("a", meta.val, attr.val)))

NextPriority ==
    \E meta \in MetaCases, attr \in AttrCases : AuthPriorityOf(meta, attr)

SpecPriority == Init /\ [][NextPriority]_vars

SpecKey == Init /\ [][NextKey]_vars

\* parseOAuthCallbackInput(raw) for the text of in
ParseCallback(in) ==
    Returned("parseOAuthCallbackInput", in,
             parseOAuthCallbackInput(CallbackText(in)))

\* parseAndValidateCallbackInput(expectedState, raw) for the text of in
ParseAndValidate(in) ==
    Returned("parseAndValidateCallbackInput", in,
             parseAndValidateCallbackInput(ExpectedState, CallbackText(in)))

\* LoginWithSocial with the callback the loopback server received for in
LoginCallback(in) ==
    Returned("LoginWithSocial", in,
             loginAfterCallback(ExpectedState,
                 [Code |-> in.code.v, State |-> in.state.v,
                  Error |-> in.error.v]))

CallbackAction(in) ==
    \/ ParseCallback(in)
    \/ ParseAndValidate(in)
    \/ LoginCallback(in)

\* One call, from the state where none was made.
NextCallback ==
    /\ call.fn = ""
    /\ \E base \in CallbackBases, code \in CodeParams, state \in StateParams,
          errParam \in ErrorParams, reversed \in BOOLEAN,
          lead \in Leads, trail \in Trails :
           CallbackAction(CallbackInput(base, code, state, errParam, reversed,
                                     lead, trail))

SpecCallback == Init /\ [][NextCallback]_vars

-----------------------------------------------------------------------------
(* Import of a token file of the Kiro IDE (package management); instants
   are seconds since 1970-01-01T00:00:00Z, before 2038 *)

\* The days from 1970-01-01 to the day d of month m of year y.
civilDays(yy, mp, d) ==
    (yy \div 400) * 146097 + (yy % 400) * 365 + (yy % 400) \div 4
    - (yy % 400) \div 100 + (153 * mp + 2) \div 5 + d - 1 - 719468
daysFromCivil(y, m, d) ==
    civilDays(IF m <= 2 THEN y - 1 ELSE y, (m + 9) % 12, d)

IsLeap(y) == y % 4 = 0 /\ (y % 100 # 0 \/ y % 400 = 0)
daysIn(y, m) ==
    IF m = 2 THEN (IF IsLeap(y) THEN 29 ELSE 28)
    ELSE IF m \in {4, 6, 9, 11} THEN 30 ELSE 31

AllDigits(s) == \A i \in 1..Len(s) : IsDigit(s[i])

\* The time of day and the date of a text of the layout of RFC 3339
\* without fraction, once split into its fields; zone is the offset in
\* seconds.
timeOfFields(y, m, d, hh, mi, ss, zoneOk, zone) ==
    IF /\ zoneOk
       /\ m \in 1..12
       /\ d >= 1
       /\ d <= daysIn(y, m)
       /\ hh < 24
       /\ mi < 60
       /\ ss < 60
    THEN [ok |-> TRUE,
          unix |-> daysFromCivil(y, m, d) * 86400 + hh * 3600 + mi * 60 + ss
                   - zone]
    ELSE [ok |-> FALSE, unix |-> 0]

\* The zone of the layout: Z, or a sign, hours, a colon and minutes.
zoneOf(z) ==
    IF z = <<"Z">> THEN [ok |-> TRUE, seconds |-> 0]
    ELSE IF /\ Len(z) = 6
            /\ z[1] \in {"+", "-"}
            /\ z[4] = ":"
            /\ AllDigits(SubSeq(z, 2, 3) \o SubSeq(z, 5, 6))
            /\ DecimalVal(SubSeq(z, 2, 3)) < 24
            /\ DecimalVal(SubSeq(z, 5, 6)) < 60
    THEN [ok |-> TRUE,
          seconds |-> (IF z[1] = "-" THEN 0 - 1 ELSE 1)
                      * (DecimalVal(SubSeq(z, 2, 3)) * 3600
                         + DecimalVal(SubSeq(z, 5, 6)) * 60)]
    ELSE [ok |-> FALSE, seconds |-> 0]

timeOfText(text, zone) ==
    timeOfFields(DecimalVal(SubSeq(text, 1, 4)), DecimalVal(SubSeq(text, 6, 7)),
                 DecimalVal(SubSeq(text, 9, 10)),
                 DecimalVal(SubSeq(text, 12, 13)),
                 DecimalVal(SubSeq(text, 15, 16)),
                 DecimalVal(SubSeq(text, 18, 19)), zone.ok, zone.seconds)

\* time.Parse(time.RFC3339, text) for a text without fraction of a second
parseRFC3339(text) ==
    IF /\ Len(text) \in {20, 25}
       /\ text[5] = "-"
       /\ text[8] = "-"
       /\ text[11] = "T"
       /\ text[14] = ":"
       /\ text[17] = ":"
       /\ AllDigits(SubSeq(text, 1, 4) \o SubSeq(text, 6, 7)
                    \o SubSeq(text, 9, 10) \o SubSeq(text, 12, 13)
                    \o SubSeq(text, 15, 16) \o SubSeq(text, 18, 19))
    THEN timeOfText(text, zoneOf(SubSeq(text, 20, Len(text))))
    ELSE [ok |-> FALSE, unix |-> 0]

\* expiresAt of the import with no default: a text that does not parse
\* gives the zero instant.
expiresAtOrZero(parsed, at) == parsed.unix

\* expiresAt of the import: now.Add(1 * time.Hour) for a text that does not
\* parse.
expiresAtOrDefault(parsed, at) == IF parsed.ok THEN parsed.unix ELSE at + 3600

SKIRONAME == <<"k","i","r","o">>
SIMPORTED == <<"i","m","p","o","r","t","e","d">>
SJSON == <<".","j","s","o","n">>

\* fmt.Sprintf("kiro-%s-%s.json", provider, idPart)
importFileName(provider, idPart) ==
    SKIRONAME \o <<"-">> \o provider \o <<"-">> \o idPart \o SJSON

\* provider of the import from what SanitizeEmailForFilename made of the
\* file's provider
importProvider(sanitized) == IF sanitized = <<>> THEN SIMPORTED ELSE sanitized

\* idPart of the import from what SanitizeEmailForFilename made of the
\* e-mail and of the profile ARN; the clock of the model has whole
\* seconds, so that now.UnixNano() % 100000 is 0.
importIdPart(email, arn) ==
    IF email # <<>> THEN email ELSE IF arn # <<>> THEN arn ELSE <<"0">>

\* The record of the import, of which the model keeps the fields below.
importRecord(fileName, provider, at, expiresAt) ==
    [ID |-> fileName, Provider |-> "kiro", FileName |-> fileName,
     Label |-> SKIRONAME \o <<"-">> \o provider, Status |-> "active",
     CreatedAt |-> at, UpdatedAt |-> at,
     NextRefreshAfter |-> expiresAt - 5 * 60]

\* What convertKiroIDETokenToAuthRecord returns: record is <<>> for nil.
ImportReturn(record, ok) == [record |-> record, ok |-> ok, err |-> ""]

\* convertKiroIDETokenToAuthRecord(data) at the instant at, for a file that
\* decodes or not into the token, and with what SanitizeEmailForFilename
\* returns for the provider, the e-mail and the profile ARN.
convertKiroIDETokenToAuthRecord(file, at) ==
    IF ~file.decodes THEN ImportReturn(<<>>, FALSE)
    ELSE IF TrimSpace(file.accessToken) = <<>> THEN ImportReturn(<<>>, FALSE)
    ELSE ImportReturn(
            <<importRecord(
                importFileName(importProvider(file.provider),
                               importIdPart(file.email, file.arn)),
                importProvider(file.provider), at,
                expiresAtOrDefault(parseRFC3339(file.expiresAt), at))>>,
            TRUE)

\* The texts of expiresAt in the files, with the instant each stands for.
ExpiryCases == <<
    [text |-> <<"2","0","2","6","-","1","1","-","0","3","T","1","3",":","0","0",":","0","0","Z">>,
     valid |-> TRUE, unix |-> 1793710800],
    [text |-> <<"2","0","2","6","-","1","1","-","0","3","T","1","4",":","0","0",":","0","0","+","0","1",":","0","0">>,
     valid |-> TRUE, unix |-> 1793710800],
    [text |-> <<"2","0","2","6","-","1","1","-","0","3","T","0","8",":","3","0",":","0","0","-","0","4",":","3","0">>,
     valid |-> TRUE, unix |-> 1793710800],
    [text |-> <<"2","0","2","7","-","0","2","-","2","8","T","2","3",":","5","9",":","5","9","Z">>,
     valid |-> TRUE, unix |-> 1803859199],
    [text |-> <<"2","0","2","8","-","0","2","-","2","9","T","0","0",":","0","0",":","0","0","Z">>,
     valid |-> TRUE, unix |-> 1835395200],
    [text |-> <<"2","0","2","6","-","0","1","-","0","1","T","0","0",":","0","0",":","0","0","Z">>,
     valid |-> TRUE, unix |-> 1767225600],
    [text |-> <<"2","0","2","7","-","0","2","-","2","9","T","0","0",":","0","0",":","0","0","Z">>,
     valid |-> FALSE, unix |-> 0],
    [text |-> <<>>,
     valid |-> FALSE, unix |-> 0],
    [text |-> <<"2","0","2","6","-","1","1","-","0","3">>,
     valid |-> FALSE, unix |-> 0],
    [text |-> <<"2","0","2","6","-","1","1","-","0","3"," ","1","3",":","0","0",":","0","0","Z">>,
     valid |-> FALSE, unix |-> 0],
    [text |-> <<"1","7","9","3","7","1","0","8","0","0">>,
     valid |-> FALSE, unix |-> 0],
    [text |-> <<"2","0","2","6","-","1","3","-","0","1","T","0","0",":","0","0",":","0","0","Z">>,
     valid |-> FALSE, unix |-> 0],
    [text |-> <<"2","0","2","6","-","1","1","-","0","3","T","2","4",":","0","0",":","0","0","Z">>,
     valid |-> FALSE, unix |-> 0],
    [text |-> <<"2","0","2","6","-","1","1","-","0","3","T","1","3",":","0","0",":","0","0">>,
     valid |-> FALSE, unix |-> 0]
>>

\* The instants of the imports: 2026-11-03T12:00:00Z and a minute later.
ImportInstants == {1793707200, 1793707200 + 60}

AccessTokens == {<<>>, <<" ">>, <<"t","o","k">>, <<" ","t","o","k">>}

\* A token file: expiry is the index of its expiresAt in ExpiryCases.
TokenFile(decodes, accessToken, expiry, provider, email, arn) ==
    [decodes |-> decodes, accessToken |-> accessToken, expiry |-> expiry,
     expiresAt |-> ExpiryCases[expiry].text, provider |-> provider,
     email |-> email, arn |-> arn]

ImportCalled(file, at) == [file |-> file, at |-> at]

\* convertKiroIDETokenToAuthRecord(data) is called at the instant at
Import(file, at) ==
    Returned("convertKiroIDETokenToAuthRecord", ImportCalled(file, at),
             convertKiroIDETokenToAuthRecord(file, at))

\* One import, from the state where no call was made.
NextImport ==
    /\ call.fn = ""
    /\ \E decodes \in BOOLEAN, accessToken \in AccessTokens,
          expiry \in 1..Len(ExpiryCases),
          provider \in {<<>>, <<"g">>}, email \in {<<>>, <<"a">>},
          arn \in {<<>>, <<"r">>}, at \in ImportInstants :
           Import(TokenFile(decodes, accessToken, expiry, provider, email,
                            arn), at)

SpecImport == Init /\ [][NextImport]_vars

-----------------------------------------------------------------------------
(* Properties of the selector *)

\* The step is the return of a Pick for a request with a session key.
StickyPick == ret'.model # "" /\ ret'.sessionKey # <<>>

\* The ids of the records a caller may be given for model now.
EligibleIds(model) == {id \in Ids : IsEligible(auths[id], model, now)}

KeyOf(sessionKey) == BindingKey(Provider, sessionKey)

\* The session has a binding that Pick may reuse: unexpired, on a record
\* that is eligible for model.
Reusable(sessionKey, model) ==
    /\ KeyOf(sessionKey) \in DOMAIN bindings
    /\ bindings[KeyOf(sessionKey)].authID \in EligibleIds(model)
    /\ now < bindings[KeyOf(sessionKey)].expiresAt

\* C1: a Pick of a session within the TTL of its previous Pick returns the
\* record the previous Pick returned whenever that record is still among
\* the eligible candidates, as it is when the eligible set is unchanged.
C1_SameRecordWithinTTL ==
    [][(/\ StickyPick
        /\ hist[ret'.sessionKey].id # ""
        /\ hist[ret'.sessionKey].id \in EligibleIds(ret'.model))
       => ret'.id = hist[ret'.sessionKey].id]_vars

\* A session was returned the record of its previous call at a time when
\* the binding of its first call would have run out.
C1_Witness ==
    \E k \in SessionKeys :
        /\ ret.sessionKey = k
        /\ hist[k].stayed
        /\ ret.id = hist[k].id
        /\ hist[k].at > stickySessionTTL

\* The record is ineligible for model now: disabled or not active, its
\* quota exceeded with nextRecoverAt > now, or cooled off for the model.
Ineligible(a, model) ==
    \/ a.disabled
    \/ a.status # "active"
    \/ a.quota.exceeded /\ a.quota.nextRecoverAt > now
    \/ /\ a.modelStates[model].unavailable
       /\ a.modelStates[model].nextRetryAfter > now

\* C2: the record a Pick returns is not ineligible at the time of the call.
C2_NeverIneligible ==
    ret.id # "" => ~Ineligible(auths[ret.id], ret.model)

\* A session whose unexpired binding pointed at a record that is ineligible
\* was returned another record.
C2_Witness ==
    \E k \in SessionKeys :
        /\ ret.sessionKey = k
        /\ ret.id # ""
        /\ hist[k].at = now
        /\ ~hist[k].stayed
        /\ hist[k].from # ""
        /\ Ineligible(auths[hist[k].from], ret.model)

\* C3: when the record of the session's previous Pick is no longer eligible
\* (and some record is), the Pick returns another, eligible record and the
\* binding points to it; a session that failed over stays on its failover
\* record while that record is eligible, also once the record it left is
\* eligible again.
C3_FailoverWithoutRebinding ==
    [][(StickyPick /\ hist[ret'.sessionKey].id # "") =>
         /\ (/\ hist[ret'.sessionKey].id \notin EligibleIds(ret'.model)
             /\ EligibleIds(ret'.model) # {})
            => /\ ret'.id \in EligibleIds(ret'.model)
               /\ ret'.id # hist[ret'.sessionKey].id
               /\ bindings'[KeyOf(ret'.sessionKey)].authID = ret'.id
         /\ (/\ hist[ret'.sessionKey].from # ""
             /\ hist[ret'.sessionKey].from \in EligibleIds(ret'.model)
             /\ hist[ret'.sessionKey].id \in EligibleIds(ret'.model))
            => /\ ret'.id = hist[ret'.sessionKey].id
               /\ ret'.id # hist[ret'.sessionKey].from
               /\ bindings'[KeyOf(ret'.sessionKey)].authID = ret'.id]_vars

\* A session that failed over was returned its failover record again after
\* the record it left had become eligible again.
C3_Witness ==
    \E k \in SessionKeys :
        /\ ret.sessionKey = k
        /\ hist[k].at = now
        /\ hist[k].stayed
        /\ hist[k].from # ""
        /\ hist[k].from # ret.id
        /\ ~Ineligible(auths[hist[k].from], ret.model)
        /\ bindings[KeyOf(k)].authID = ret.id

\* C4: a Pick made when no record is eligible fails with auth_not_found
\* and leaves the bindings map as it was.
C4_NoneEligible ==
    [][(ret'.model # "" /\ EligibleIds(ret'.model) = {})
       => /\ ret'.err = "auth_not_found"
          /\ ret'.id = ""
          /\ bindings' = bindings]_vars

\* A Pick failed with auth_not_found while the map held a binding that had
\* run out and the binding of the session itself.
C4_Witness ==
    /\ ret.err = "auth_not_found"
    /\ ret.sessionKey # <<>>
    /\ KeyOf(ret.sessionKey) \in DOMAIN bindings
    /\ \E k \in DOMAIN bindings : bindings[k].expiresAt < now

\* The least priority number among the records eligible for model.
MinPriority(model) ==
    MinOf({authPriority(auths[id]) : id \in EligibleIds(model)})

\* C5: a Pick of a session without a reusable binding returns a record
\* whose priority number is the least among the eligible records.
C5_MinPriority ==
    [][(StickyPick /\ ~Reusable(ret'.sessionKey, ret'.model) /\ ret'.id # "")
       => authPriority(auths[ret'.id]) = MinPriority(ret'.model)]_vars

\* A new selection returned a record that another session is bound to,
\* although an eligible record of a larger priority number has no binding
\* and a higher rendezvous score.
C5_Witness ==
    \E k \in SessionKeys :
        /\ ret.sessionKey = k
        /\ ret.id # ""
        /\ hist[k].at = now
        /\ ~hist[k].stayed
        /\ \E o \in DOMAIN bindings :
              o # KeyOf(k) /\ bindings[o].authID = ret.id /\ bindings[o].expiresAt > now
        /\ \E c \in EligibleIds(ret.model) :
              /\ authPriority(auths[c]) > authPriority(auths[ret.id])
              /\ rendezvousScore(k, c) > rendezvousScore(k, ret.id)
              /\ \A o \in DOMAIN bindings : bindings[o].authID # c

\* The records of the set whose priority number is p.
IdsOfPriority(S, p) == {id \in S : authPriority(auths[id]) = p}

\* The eligible records of the least priority number.
MinPriorityIds(model) ==
    IdsOfPriority(EligibleIds(model), MinPriority(model))

\* The number of bindings on the record that have not run out.
UnexpiredLoad(id) ==
    Cardinality({k \in DOMAIN bindings :
        bindings[k].authID = id /\ bindings[k].expiresAt > now})

\* C6: a Pick of a session without a reusable binding returns a record
\* with the least number of unexpired bindings among the eligible records
\* of the least priority number.
C6_LeastLoaded ==
    [][(StickyPick /\ ~Reusable(ret'.sessionKey, ret'.model) /\ ret'.id # "")
       => UnexpiredLoad(ret'.id) =
            MinOf({UnexpiredLoad(id) : id \in MinPriorityIds(ret'.model)})]_vars

\* The number of bindings of other sessions on the record that Pick counts
\* as its load: those with now not after expiresAt.
CountedLoad(sessionKey, id) ==
    Cardinality({k \in DOMAIN bindings \ {KeyOf(sessionKey)} :
        bindings[k].authID = id /\ bindings[k].expiresAt >= now})

\* The records of the set with the least counted load.
LeastLoaded(sessionKey, S) ==
    {id \in S :
        \A o \in S : CountedLoad(sessionKey, id) <= CountedLoad(sessionKey, o)}

\* The records tied on priority and on counted load for a new selection.
TiedIds(sessionKey, model) == LeastLoaded(sessionKey, MinPriorityIds(model))

\* The record of the set with the highest score, the smaller id on equal
\* scores.
BestOf(sessionKey, S) ==
    CHOOSE x \in S : \A y \in S :
        \/ rendezvousScore(sessionKey, x) > rendezvousScore(sessionKey, y)
        \/ /\ rendezvousScore(sessionKey, x) = rendezvousScore(sessionKey, y)
           /\ ~IdLess(y, x)

\* C7: a new selection returns the record that the session key and the set
\* of tied ids determine, whatever the order of the candidate list.
C7_RendezvousByKeyAndSet ==
    [][(StickyPick /\ ~Reusable(ret'.sessionKey, ret'.model) /\ ret'.id # "")
       => ret'.id = BestOf(ret'.sessionKey,
                           TiedIds(ret'.sessionKey, ret'.model))]_vars

\* A new selection between two eligible records of equal priority, load
\* and score returned the one of the smaller id.
C7_Witness ==
    \E k \in SessionKeys :
        /\ ret.sessionKey = k
        /\ hist[k].at = now
        /\ ~hist[k].stayed
        /\ DOMAIN bindings = {KeyOf(k)}
        /\ \E o \in EligibleIds(ret.model) :
              /\ IdLess(ret.id, o)
              /\ authPriority(auths[o]) = authPriority(auths[ret.id])
              /\ rendezvousScore(k, o) = rendezvousScore(k, ret.id)

\* C8: a Pick that returns a record leaves the session's binding on it with
\* expiresAt = now + TTL and lastUsedAt = now; before expiresAt a binding on
\* an eligible record is reused; at or after expiresAt the Pick succeeds
\* with the record a session without a binding would get.
C8_BindingTTL ==
    [][StickyPick =>
         /\ ret'.id # "" =>
               bindings'[KeyOf(ret'.sessionKey)] =
                   [authID |-> ret'.id, expiresAt |-> now + stickySessionTTL,
                    lastUsedAt |-> now]
         /\ Reusable(ret'.sessionKey, ret'.model) =>
               ret'.id = bindings[KeyOf(ret'.sessionKey)].authID
         /\ (/\ KeyOf(ret'.sessionKey) \in DOMAIN bindings
             /\ now >= bindings[KeyOf(ret'.sessionKey)].expiresAt
             /\ EligibleIds(ret'.model) # {})
            => /\ ret'.err = ""
               /\ ret'.id = BestOf(ret'.sessionKey,
                                   TiedIds(ret'.sessionKey, ret'.model))]_vars

\* A Pick made exactly at the expiresAt of the session's binding returned a
\* record and installed a binding of a full TTL.
C8_Witness ==
    \E k \in SessionKeys :
        /\ ret.sessionKey = k
        /\ ret.id # ""
        /\ now = 1 + stickySessionTTL
        /\ hist[k].at = now
        /\ hist[k].lapsed
        /\ bindings[KeyOf(k)].expiresAt = now + stickySessionTTL

\* C9: a GC pass at time now removes exactly the bindings with
\* expiresAt <= now or an empty authID and leaves the others as they are.
C9_GCExact ==
    /\ DOMAIN gcLocked(bindings, now).bindings =
         {k \in DOMAIN bindings :
             ~(bindings[k].expiresAt <= now \/ bindings[k].authID = "")}
    /\ \A k \in DOMAIN gcLocked(bindings, now).bindings :
          gcLocked(bindings, now).bindings[k] = bindings[k]

\* One of the three conditions under which Pick is to run the GC.
GCDue ==
    \/ Cardinality(DOMAIN bindings) >= stickyGCMinEntries
    \/ lastGC = 0
    \/ now - lastGC >= stickyGCInterval

\* C10: after a Pick made when the GC is due no binding with
\* expiresAt <= now is in the map; a Pick made when it is not due runs no
\* GC: lastGC and the bindings of the other sessions stay as they are.
C10_GCBeforeSelection ==
    [][(StickyPick /\ ret'.id # "") =>
         IF GCDue
         THEN \A k \in DOMAIN bindings' : bindings'[k].expiresAt > now
         ELSE /\ lastGC' = lastGC
              /\ \A k \in DOMAIN bindings \ {KeyOf(ret'.sessionKey)} :
                    k \in DOMAIN bindings' /\ bindings'[k] = bindings[k]]_vars

\* The keys of the unexpired bindings on the record.
UnexpiredOn(id) ==
    {k \in DOMAIN bindings :
        bindings[k].authID = id /\ bindings[k].expiresAt > now}

\* C11: the list SessionBindingStatuses returns has one entry for each
\* record with an unexpired binding, with session_count the number of those
\* bindings and last_used_at the latest of their lastUsedAt.
C11_StatusCounts ==
    ret.call = "SessionBindingStatuses" =>
        ret.statuses =
            {[auth_id       |-> id,
              session_count |-> Cardinality(UnexpiredOn(id)),
              last_used_at  |-> MaxOf({bindings[k].lastUsedAt :
                                          k \in UnexpiredOn(id)})] :
                id \in {x \in Ids : UnexpiredOn(x) # {}}}

\* The session_<uuid> of the values of metadata.user_id, <<>> for none.
UuidIn(userID) ==
    IF userID = UserIdDigits THEN UuidDigits
    ELSE IF userID = UserIdCapitals THEN UuidLetters
    ELSE <<>>

\* The bearer token of the values of Authorization: the token after the
\* scheme Bearer or the value that is nothing but a token; <<>> for no
\* header, for another scheme and for the scheme without a token.
BearerIn(authorization) ==
    IF authorization \in {AuthBearer, AuthLower, AuthRaw} THEN <<"k","1">>
    ELSE <<>>

\* The key of the first source that the request has, in the fixed order.
FirstSourceKey(o) ==
    IF TrimSpace(o.session_id) # <<>>
        THEN CodexPrefix \o HexDigest16(TrimSpace(o.session_id))
    ELSE IF UuidIn(o.user_id) # <<>>
        THEN ClaudePrefix \o UuidIn(o.user_id)
    ELSE IF BearerIn(o.authorization) # <<>>
        THEN ApiKeyPrefix \o HexDigest16(BearerIn(o.authorization))
    ELSE IF TrimSpace(o.x_api_key) # <<>>
        THEN ApiKeyPrefix \o HexDigest16(TrimSpace(o.x_api_key))
    ELSE IF TrimSpace(o.x_goog_api_key) # <<>>
        THEN ApiKeyPrefix \o HexDigest16(TrimSpace(o.x_goog_api_key))
    ELSE IF TrimSpace(o.user_agent) # <<>>
        THEN UAPrefix \o HexDigest16(TrimSpace(o.user_agent))
    ELSE <<>>

\* C12: the session key is the key of the first source the request has, in
\* the order session_id, metadata.user_id with session_<uuid>, bearer token
\* of Authorization, x-api-key, x-goog-api-key, User-Agent; it is empty
\* only when the request has none of them.
C12_FirstSourceInOrder ==
    call.fn = "extractStickySessionKey" => call.out = FirstSourceKey(call.arg)

\* C13: without session_id, without a matching metadata.user_id and
\* without a bearer token in Authorization, a request with x-api-key gets
\* the key "apikey:" followed by the hash of x-api-key.
C13_ApiKeyFallback ==
    (/\ call.fn = "extractStickySessionKey"
     /\ TrimSpace(call.arg.session_id) = <<>>
     /\ UuidIn(call.arg.user_id) = <<>>
     /\ BearerIn(call.arg.authorization) = <<>>
     /\ TrimSpace(call.arg.x_api_key) # <<>>)
    => call.out = ApiKeyPrefix \o HexDigest16(TrimSpace(call.arg.x_api_key))

\* C14 as claimed: the priority is the number written in
\* metadata.priority, and 50 whenever no number is written there.
C14_MetadataOrDefault ==
    call.fn = "authPriority" =>
        call.out = IF call.arg.metadata.num THEN call.arg.metadata.want
                   ELSE 50

\* C14, amended: the priority is the number written in metadata.priority
\* (an int, a float truncated, a decimal integer string); without one, the
\* decimal integer written in attributes.priority; without either, 50.
C14_MetadataAttributesOrDefault ==
    call.fn = "authPriority" =>
        call.out = IF call.arg.metadata.num THEN call.arg.metadata.want
                   ELSE IF call.arg.attributes.num
                        THEN call.arg.attributes.want
                   ELSE 50

\* The priority of a record with the metadata priority "high" and the
\* attribute priority " 8 " was asked for.
C14_Witness ==
    /\ call.fn = "authPriority"
    /\ call.arg.metadata.val.s = <<"h","i","g","h">>
    /\ call.arg.attributes.val = <<" ","8"," ">>
    /\ call.out = 8

\* C15: a Pick for a request without a session key returns one of the
\* eligible records, as the round-robin selector does, and leaves the
\* bindings map and lastGC as they were: no binding is created, refreshed
\* or deleted and no GC runs.
C15_KeylessLeavesBindings ==
    [][(ret'.call = "Pick" /\ ret'.sessionKey = <<>>)
       => /\ bindings' = bindings
          /\ lastGC' = lastGC
          /\ IF EligibleIds(ret'.model) = {}
             THEN ret'.err = "auth_not_found" /\ ret'.id = ""
             ELSE ret'.err = "" /\ ret'.id \in EligibleIds(ret'.model)]_vars

\* A request without a session key was served while the map held two
\* bindings, one of them run out, and the GC interval had passed.
C15_Witness ==
    /\ ret.call = "Pick"
    /\ ret.sessionKey = <<>>
    /\ ret.id # ""
    /\ Cardinality(DOMAIN bindings) >= stickyGCMinEntries
    /\ now - lastGC >= stickyGCInterval
    /\ \E k \in DOMAIN bindings : bindings[k].expiresAt < now

\* C16: right after a record is disabled no binding of the selector has
\* its id, and SessionBindingStatuses, called then, lists no sessions for
\* it.
C16_DisablePurgesBindings ==
    [][\A id \in Ids :
         (auths'[id].disabled /\ ~auths[id].disabled)
         => /\ \A k \in DOMAIN bindings' : bindings'[k].authID # id
            /\ \A e \in bindingStatuses(bindings', lastGC', now').out :
                  e.auth_id # id]_vars

C20_PollInterval ==
    /\ [](poll.pc = "waiting" => poll.interval >= 5)
    /\ [][(poll'.pc = "waiting" /\ poll.pc # "waiting")
          => poll'.interval = IF poll'.server > 5 THEN poll'.server ELSE 5]_vars
    /\ [][poll'.polls = poll.polls + 1
          => /\ poll'.last = "slow_down"
                => poll'.interval = poll.interval + 5
             /\ poll'.last = "authorization_pending"
                => poll'.interval = poll.interval]_vars

\* The server asked for 3 s, answered slow_down twice and then
\* authorization_pending: the interval is 15 s.
C20_Witness ==
    /\ poll.pc = "waiting"
    /\ poll.server = 3
    /\ poll.polls = 3
    /\ poll.last = "authorization_pending"
    /\ poll.interval = 15

\* C21: a tick of the ticker that comes after the deadline, which is the
\* expiry of the device code when it has one below 15 min and 15 min from
\* the start otherwise, ends polling with polling_timeout without an
\* exchange attempt; a tick up to the deadline makes the attempt.
C21_PollDeadline ==
    [][poll'.polls = poll.polls + 1
       => IF poll'.elapsed >
               (IF poll.expiresIn > 0 /\ poll.expiresIn < 900
                THEN poll.expiresIn ELSE 900)
          THEN /\ poll'.pc = "done"
               /\ poll'.err = "polling_timeout"
               /\ poll'.last = ""
          ELSE poll'.last # ""]_vars

\* Polling of a code that expires after 20 s ended with polling_timeout at
\* its fifth tick, the first one after the 20 s.
C21_Witness ==
    /\ poll.pc = "done"
    /\ poll.expiresIn = 20
    /\ poll.polls = 5
    /\ poll.elapsed = 25
    /\ poll.err = "polling_timeout"
    /\ poll.last = ""

\* C22 as claimed: after an exchange attempt the loop goes on exactly when
\* the answer was authorization_pending or slow_down; any other failure
\* ends polling and is the error returned; no attempt follows the end; and
\* polling whose context was cancelled ends with polling_timeout.
C22_OnlyPendingContinues ==
    /\ [][(poll'.polls = poll.polls + 1 /\ poll'.last # "")
          => /\ poll'.pc = "waiting"
                <=> poll'.last \in {"authorization_pending", "slow_down"}
             /\ (poll'.pc = "done" /\ poll'.last # "token")
                => poll'.err = poll'.last]_vars
    /\ [][poll.pc = "done" => poll'.polls # poll.polls + 1]_vars
    /\ [](poll.pc = "done" /\ poll.cancelled => poll.err = "polling_timeout")

\* C22, amended: as claimed, but polling whose context was cancelled ends
\* without a token either with polling_timeout or, when the loop took a
\* tick before it saw the cancellation, with the failure of that exchange
\* attempt, token_exchange_failed.
C22_OnlyPendingContinuesCancelFails ==
    /\ [][(poll'.polls = poll.polls + 1 /\ poll'.last # "")
          => /\ poll'.pc = "waiting"
                <=> poll'.last \in {"authorization_pending", "slow_down"}
             /\ (poll'.pc = "done" /\ poll'.last # "token")
                => poll'.err = poll'.last]_vars
    /\ [][poll.pc = "done" => poll'.polls # poll.polls + 1]_vars
    /\ [](poll.pc = "done" /\ poll.cancelled
          => \/ poll.err = "polling_timeout"
             \/ poll.err = "token_exchange_failed"
                /\ poll.last = "token_exchange_failed")

\* After two answers that kept the loop running the context was cancelled
\* and the tick that followed ended polling with the failed exchange.
C22_Witness ==
    /\ poll.pc = "done"
    /\ poll.cancelled
    /\ poll.polls = 3
    /\ poll.err = "token_exchange_failed"


-----------------------------------------------------------------------------
(* Properties of the Kiro callback *)

\* C23: the code of a callback is exchanged only when the callback carries
\* no error, a code, and exactly the state made for the login; a pasted
\* callback whose state is there and differs from that state is rejected.
C23_StateMustMatch ==
    /\ (call.fn = "LoginWithSocial" /\ call.out = "CreateToken")
          => /\ call.arg.error.v = <<>>
             /\ call.arg.code.v # <<>>
             /\ call.arg.state.v = ExpectedState
    /\ (call.fn = "LoginWithSocial" /\ call.arg.state.v # ExpectedState)
          => call.out \in {"authentication error",
                           "OAuth state validation failed"}
    /\ (/\ call.fn = "parseAndValidateCallbackInput"
        /\ call.arg.state.v # <<>>
        /\ call.arg.state.v # ExpectedState)
          => call.out.callback = <<>> /\ call.out.err # ""

\* A callback with a code and another state is refused by the login, and a
\* pasted one is refused as a state mismatch.
C23_Witness ==
    \/ /\ call.fn = "LoginWithSocial"
       /\ call.arg.code.v # <<>>
       /\ call.arg.error.v = <<>>
       /\ call.arg.state.v = SOT
       /\ call.out = "OAuth state validation failed"
    \/ /\ call.fn = "parseAndValidateCallbackInput"
       /\ call.arg.code.v # <<>>
       /\ call.arg.state.v = SOT
       /\ call.out.err = "state mismatch"

\* C29: parseOAuthCallbackInput reads an http(s) URL, a kiro:// URL or a
\* query alone; with an error parameter it returns the error and the state
\* with an empty code and no failure; without one it fails unless code and
\* state are both non-empty, and then returns them; the redirect URI it
\* returns is scheme://host/path for a URL and empty for a query alone.
C29_ParseCallbackInput ==
    call.fn = "parseOAuthCallbackInput" =>
        /\ call.arg.error.v # <<>> =>
              /\ call.out.err = ""
              /\ call.out.code = <<>>
              /\ call.out.error = call.arg.error.v
              /\ call.out.state = call.arg.state.v
        /\ call.arg.error.v = <<>> =>
              /\ call.out.err = ""
                    <=> call.arg.code.v # <<>> /\ call.arg.state.v # <<>>
              /\ call.out.err = "" =>
                    /\ call.out.code = call.arg.code.v
                    /\ call.out.state = call.arg.state.v
                    /\ call.out.error = <<>>
        /\ call.out.err = "" => call.out.redirectURI = call.arg.base
        /\ call.out.err # "" =>
              /\ call.out.code = <<>>
              /\ call.out.state = <<>>
              /\ call.out.redirectURI = <<>>

\* A kiro:// callback with an error, pasted with a blank in front and a
\* line end behind, is read with its error and its redirect URI.
C29_Witness ==
    /\ call.fn = "parseOAuthCallbackInput"
    /\ call.arg.base = BKIRO
    /\ call.arg.lead # <<>>
    /\ call.arg.trail # <<>>
    /\ call.arg.code.v # <<>>
    /\ call.out.error = SDENIED
    /\ call.out.code = <<>>
    /\ call.out.redirectURI = BKIRO

-----------------------------------------------------------------------------
(* Properties of the callback server *)

\* C24: WaitForCallback returns within HandlerTimeout of its call: it is
\* never still waiting later than that and it always returns; it returns
\* either a callback and no error, or no callback and the error of the
\* cancelled context, or no callback and the timeout error at the end of
\* HandlerTimeout; time does not pass while it waits under a cancelled
\* context.
C24_WaitReturnsWithinCap ==
    /\ [](wait.pc = "waiting" => clock - wait.start <= HandlerTimeout)
    /\ [](call.fn = "WaitForCallback" =>
            /\ call.arg.at - call.arg.start <= HandlerTimeout
            /\ call.out.callback # <<>> <=> call.out.err = ""
            /\ call.out.err \in {"", "context canceled",
                                 "timeout waiting for OAuth callback"}
            /\ call.out.err = "context canceled" => call.arg.cancelled
            /\ call.out.err = "timeout waiting for OAuth callback"
                  => call.arg.at - call.arg.start = HandlerTimeout)
    /\ [][(wait.pc = "waiting" /\ wait.ctx \in ctxDone) => clock' = clock]_vars
    /\ (wait.pc = "waiting" ~> wait.pc = "idle")

\* A wait that began after the clock had moved ends with the timeout error
\* HandlerTimeout later.
C24_Witness ==
    /\ call.fn = "WaitForCallback"
    /\ call.arg.start > 0
    /\ call.arg.at = call.arg.start + HandlerTimeout
    /\ call.out.callback = <<>>
    /\ call.out.err = "timeout waiting for OAuth callback"

\* C25: once the context of a login is cancelled or HandlerTimeout has
\* passed since its Start, the server of that login eventually serves no
\* more and is not the running server of the handler; and a Start made
\* while no server runs empties resultChan, so that WaitForCallback never
\* returns a callback received by a server older than the last Start
\* before its call.
C25_StoppedAndDrained ==
    /\ \A i \in Instances :
          (/\ gor[i].pc # "none"
           /\ i \in ctxDone \/ clock >= gor[i].at + HandlerTimeout)
             ~> (i \notin live.serving /\ ~(h.running /\ h.server = i))
    /\ []((call.fn = "Start" /\ ~call.arg.running) => h.resultChan = <<>>)
    /\ []((call.fn = "WaitForCallback" /\ call.out.callback # <<>>)
             => call.out.callback[1].run >= call.arg.gen)

\* The second Start found a callback of the first server in resultChan and
\* dropped it, and the first server was stopped after its context was
\* cancelled.
C25_Witness ==
    /\ call.fn = "Start"
    /\ call.arg.resultChan # <<>>
    /\ h.server = 2
    /\ h.running
    /\ h.resultChan = <<>>
    /\ 1 \in ctxDone
    /\ gor[1].pc = "done"
    /\ 1 \notin live.serving

\* C26: a Start made while no server runs binds the first port of
\* DefaultHandlerPort .. DefaultHandlerPort + 4 that no one holds and
\* returns it; when all five are held it returns an error and h.running
\* stays false.
C26_FirstFreePort ==
    (call.fn = "Start" /\ ~call.arg.running) =>
        IF \A p \in DefaultHandlerPort .. DefaultHandlerPort + 4 :
              p \in call.arg.busy
        THEN /\ call.out.err # ""
             /\ call.out.port = 0
             /\ ~h.running
        ELSE /\ call.out.err = ""
             /\ call.out.port \in DefaultHandlerPort .. DefaultHandlerPort + 4
             /\ call.out.port \notin call.arg.busy
             /\ \A p \in DefaultHandlerPort .. DefaultHandlerPort + 4 :
                   p < call.out.port => p \in call.arg.busy
             /\ h.running
             /\ h.port = call.out.port

\* With the first two ports held and the last free, Start binds the third.
C26_Witness ==
    /\ call.fn = "Start"
    /\ call.arg.busy = {DefaultHandlerPort, DefaultHandlerPort + 1}
    /\ call.out.port = DefaultHandlerPort + 2
    /\ h.port = DefaultHandlerPort + 2
    /\ h.running

\* C30: the call of Stop the auto-shutdown goroutine of instance i makes
\* shuts no server down but server i.
C30_StopsOwnServerOnly ==
    [][\A i \in Instances :
          (gor[i].pc = "stop" /\ gor'[i].pc = "done")
             => (live.serving \ live'.serving) \subseteq {i}]_vars

\* C27: once waitForOAuthCallback has returned, each of its goroutines has
\* ended or ends without a callback arriving or the user answering.
C27_NoWorkLeftBehind ==
    cw.pc = "returned" ~> (cw.waitG # "waiting" /\ cw.promptG # "prompting")

-----------------------------------------------------------------------------
(* Properties of the token import *)

\* C28: the import returns a record, with ok and no error, exactly when
\* the file decodes and its access token is not blank, and otherwise no
\* record, not ok and no error; the record has provider kiro, status
\* active, its file name as id, and nextRefreshAfter five minutes before
\* the instant of the file's expiresAt, or 55 minutes after the import
\* when expiresAt is no RFC 3339 time.
C28_TokenImport ==
    call.fn = "convertKiroIDETokenToAuthRecord" =>
        /\ call.out.err = ""
        /\ call.out.ok <=> call.out.record # <<>>
        /\ call.out.ok <=>
              /\ call.arg.file.decodes
              /\ \E i \in 1..Len(call.arg.file.accessToken) :
                    call.arg.file.accessToken[i] # " "
        /\ call.out.ok =>
              /\ call.out.record[1].Provider = "kiro"
              /\ call.out.record[1].Status = "active"
              /\ call.out.record[1].ID = call.out.record[1].FileName
              /\ call.out.record[1].NextRefreshAfter =
                    IF ExpiryCases[call.arg.file.expiry].valid
                    THEN ExpiryCases[call.arg.file.expiry].unix - 300
                    ELSE call.arg.at + 3600 - 300

\* A file with a token and a date without time is imported with a refresh
\* due 55 minutes later.
C28_Witness ==
    /\ call.fn = "convertKiroIDETokenToAuthRecord"
    /\ call.out.ok
    /\ call.arg.file.expiresAt = ExpiryCases[9].text
    /\ ~ExpiryCases[9].valid
    /\ call.out.record[1].NextRefreshAfter = call.arg.at + 3300

\* C31: a Start made while the server runs returns h.port and changes
\* neither the handler, the servers, the channels nor the goroutines; a
\* Stop made while no server runs, by a login or by an auto-shutdown
\* goroutine, changes none of them either; and no stop channel is closed
\* when it is closed already.
C31_StartStopIdempotent ==
    /\ [](live.twice = {})
    /\ [][(call'.fn = "Start" /\ call'.arg.running)
             => /\ UNCHANGED <<h, live, gor>>
                /\ call'.out.port = h.port
                /\ call'.out.err = ""]_vars
    /\ [][(call'.fn = "Stop" /\ ~call'.arg.running)
             => UNCHANGED <<h, live, gor>>]_vars
    /\ [][\A i \in Instances :
             (gor[i].pc = "stop" /\ gor'[i].pc = "done" /\ ~h.running)
                => UNCHANGED <<h, live>>]_vars

\* Start is called while the second server runs; the second Start had
\* found the stop channel of the first already closed by Stop.
C31_Witness ==
    /\ call.fn = "Start"
    /\ call.arg.running
    /\ h.server = 2
    /\ {0, 1} \subseteq live.closed
    /\ 2 \notin live.closed
    /\ live.serving = {2}

\* C32: resultChan never holds more than one callback; handleCallback
\* puts its callback there when the channel is empty and drops it when not,
\* and can always run on a server that serves; WaitForCallback returns the
\* callback the channel holds.
C32_OneCallbackBuffered ==
    /\ [](Len(h.resultChan) <= 1)
    /\ [](\A i \in live.serving : \A cb \in Callbacks :
             ENABLED HandleCallback(i, cb))
    /\ [](call.fn = "handleCallback" =>
             h.resultChan = IF call.arg.pending = <<>> THEN <<call.out>>
                            ELSE call.arg.pending)
    /\ [][(call'.fn = "WaitForCallback" /\ call'.out.err = "")
             => /\ call'.out.callback = h.resultChan
                /\ h'.resultChan = <<>>]_vars

\* A callback with an error arrives while the one with the code waits in
\* the channel, and is dropped.
C32_Witness ==
    /\ call.fn = "handleCallback"
    /\ call.arg.pending # <<>>
    /\ call.out.Error # ""
    /\ h.resultChan[1].Code # ""

-----------------------------------------------------------------------------
(* Termination of the device-code polling *)

\* C34: a call of PollForToken that waits eventually returns, whatever
\* the token endpoint answers, as long as its ticker fires and its
\* exchanges return; and it has returned with a token, an error of the
\* exchange, or a polling timeout.
C34_PollTerminates ==
    /\ poll.pc = "waiting" ~> poll.pc = "done"
    /\ [](poll.pc = "done" =>
             \/ poll.err = "" /\ poll.last = "token"
             \/ poll.err = "polling_timeout"
             \/ poll.err # "" /\ poll.err = poll.last
             \/ poll.err = "token_exchange_failed")

\* The endpoint answered slow_down to the end: the loop stopped by itself
\* with a polling timeout, after more than one turn.
C34_Witness ==
    /\ poll.pc = "done"
    /\ poll.err = "polling_timeout"
    /\ ~poll.cancelled
    /\ poll.polls >= 3
    /\ poll.interval > pollInterval(poll.server)

-----------------------------------------------------------------------------
(* Calls of the selector that overlap: a call reads the clock and the
   eligible candidates first and takes the mutex afterwards.  The calls
   that have read the clock and wait for the mutex are kept in call.arg;
   call.out is what the call that took the mutex last overlapped with. *)

\* The number of calls that wait for the mutex at one time.
MaxInflight == 2

NoPeer == [id |-> "", at |-> 0, unbound |-> FALSE, mixed |-> FALSE]

\* A call of Pick between its clock reading and s.mu.Lock().
Inflight(fn, sessionKey, model, t, available) ==
    [fn |-> fn, sessionKey |-> sessionKey, model |-> model, at |-> t,
     available |-> available,
     unbound |-> BindingKey(Provider, sessionKey) \notin DOMAIN bindings,
     peer |-> NoPeer]

NoInflight == [unbound |-> FALSE, at |-> 0, peer |-> NoPeer]

\* The waiting calls without the i-th.
withoutCall(q, i) == SubSeq(q, 1, i - 1) \o SubSeq(q, i + 1, Len(q))

\* A waiting call of the same session over the same candidates learns what
\* the call c that overlaps it returned; a call of the session over other
\* candidates sets the pair aside (mixed).
peerOf(w, c, id) ==
    IF w.fn # "Pick" \/ c.fn # "Pick" \/ id = "" \/ w.sessionKey # c.sessionKey
    THEN w
    ELSE IF IdsOf(w.available) # IdsOf(c.available)
    THEN [w EXCEPT !.peer = [NoPeer EXCEPT !.mixed = TRUE]]
    ELSE IF w.peer.id = "" /\ ~w.peer.mixed
    THEN [w EXCEPT !.peer = [id |-> id, at |-> c.at, unbound |-> c.unbound,
                             mixed |-> FALSE]]
    ELSE w

\* What is kept of the call c that returned: the record an overlapping call
\* of its session returned before it when both found the session unbound,
\* and the earlier of the two clock readings.
overlapped(c) ==
    IF c.peer.id # "" /\ c.unbound /\ c.peer.unbound
    THEN [id |-> c.peer.id, first |-> Min(c.at, c.peer.at)]
    ELSE [id |-> "", first |-> 0]

\* call once the i-th waiting call c returned id.
callAfter(i, c, id) ==
    [fn |-> "overlap",
     arg |-> [j \in 1..(Len(call.arg) - 1) |->
                 peerOf(withoutCall(call.arg, i)[j], c, id)],
     out |-> overlapped(c)]

\* Pick up to s.mu.Lock(): now := time.Now(), getAvailableAuths, the
\* session key.  An error of getAvailableAuths returns at once.
PickEnterWith(sessionKey, model, got) ==
    IF got.err # "" \/ sessionKey = <<>>
    THEN PickWith(sessionKey, model, got)
    ELSE /\ call' = [fn |-> "overlap",
                     arg |-> Append(call.arg,
                                Inflight("Pick", sessionKey, model, now,
                                         got.available)),
                     out |-> overlapped(NoInflight)]
         /\ ret' = NoRet
         /\ preview' = NoPreview
         /\ UNCHANGED <<now, auths, bindings, lastGC, hist>>
         /\ UNCHANGED <<quota, qlast, poll, kiroVars>>

PickEnterUpTo(n, opts, model, order) ==
    /\ Len(call.arg) < n
    /\ PickEnterWith(extractStickySessionKey(opts), model,
                     getAvailableAuths([i \in 1..Len(order) |-> auths[order[i]]],
                                       model, now))

PickEnter(opts, model, order) == PickEnterUpTo(MaxInflight, opts, model, order)

\* What a call leaves when it releases the mutex.
OverlapReturn(i, c, r, statuses) ==
    /\ bindings' = r.bindings
    /\ lastGC' = r.lastGC
    /\ ret' = [sessionKey |-> c.sessionKey, model |-> c.model, id |-> r.id,
               err |-> r.err, call |-> c.fn, statuses |-> statuses]
    /\ call' = callAfter(i, c, r.id)
    /\ preview' = NoPreview
    /\ UNCHANGED <<now, auths, hist>>
    /\ UNCHANGED <<quota, qlast, poll, kiroVars>>

\* Pick from s.mu.Lock() to its return, with the clock reading of its
\* entry.
PickLock(i) ==
    /\ i \in 1..Len(call.arg)
    /\ call.arg[i].fn = "Pick"
    /\ OverlapReturn(i, call.arg[i],
                     pickLocked(bindings, lastGC, call.arg[i].at, Provider,
                                call.arg[i].sessionKey, call.arg[i].available),
                     {})

\* SessionBindingStatuses up to s.mu.Lock(): now := time.Now()
StatusesEnter ==
    /\ Len(call.arg) < MaxInflight
    /\ call' = [fn |-> "overlap",
                arg |-> Append(call.arg,
                           Inflight("SessionBindingStatuses", <<>>, "", now,
                                    <<>>)),
                out |-> overlapped(NoInflight)]
    /\ ret' = NoRet
    /\ preview' = NoPreview
    /\ UNCHANGED <<now, auths, bindings, lastGC, hist>>
    /\ UNCHANGED <<quota, qlast, poll, kiroVars>>

statusesReturned(r) ==
    [bindings |-> r.bindings, lastGC |-> r.lastGC, id |-> "", err |-> "",
     out |-> r.out]

StatusesLockWith(i, r) == OverlapReturn(i, call.arg[i], r, r.out)

\* SessionBindingStatuses from s.mu.Lock() to its return.
StatusesLock(i) ==
    /\ i \in 1..Len(call.arg)
    /\ call.arg[i].fn = "SessionBindingStatuses"
    /\ StatusesLockWith(i, statusesReturned(
                               bindingStatuses(bindings, lastGC, call.arg[i].at)))

\* Two sessions whose calls overlap, and an operator who disables and
\* enables a record.
NextOverlap ==
    \/ Tick
    \/ \E opts \in Requests : PickEnter(opts, "gpt-test", IdOrder)
    \/ \E i \in 1..MaxInflight : PickLock(i)
    \/ \E d \in BOOLEAN : SetDisabled("a", d)

SpecOverlap == Init /\ [][NextOverlap]_vars

\* Three calls of two sessions that wait for the mutex at one time, on
\* records that stay eligible.
MaxOverlap == 3

NextTriple ==
    \/ Tick
    \/ \E opts \in Requests : PickEnterUpTo(MaxOverlap, opts, "gpt-test", IdOrder)
    \/ \E i \in 1..MaxOverlap : PickLock(i)

SpecTriple == Init /\ [][NextTriple]_vars

\* A candidate without an ID, of the priority of a and b.
Nameless == NewAuth("", [type |-> "int", v |-> 10], <<>>)

\* Pick up to s.mu.Lock() over the registered records and a nameless one.
PickEnterNameless(opts, model, order) ==
    /\ Len(call.arg) < MaxInflight
    /\ PickEnterWith(extractStickySessionKey(opts), model,
                     getAvailableAuths(<<Nameless>> \o
                                         [i \in 1..Len(order) |-> auths[order[i]]],
                                       model, now))

\* The selector alone: the calls of Pick and SessionBindingStatuses and the
\* passing of time.
NextSelector ==
    \/ Tick
    \/ \E opts \in Requests : PickEnter(opts, "gpt-test", IdOrder)
    \/ \E opts \in Requests : PickEnterNameless(opts, "gpt-test", IdOrder)
    \/ \E i \in 1..MaxInflight : PickLock(i)
    \/ StatusesEnter
    \/ \E i \in 1..MaxInflight : StatusesLock(i)

SpecSelector == Init /\ [][NextSelector]_vars

-----------------------------------------------------------------------------
(* Overlapping calls of one session *)

\* The key of the session of the call that returned last.
RetKey == BindingKey(Provider, ret.sessionKey)

\* The call of Pick that returned last overlapped with a call of its
\* session over the same candidates, and both found the session unbound.
OverlappedPick ==
    /\ call.fn = "overlap"
    /\ ret.call = "Pick"
    /\ call.out.id # ""

\* The second of the two calls returned the record of the first, and the
\* session has its binding, to that record.
SameRecordOneBinding ==
    /\ ret.id = call.out.id
    /\ RetKey \in DOMAIN bindings
    /\ bindings[RetKey].authID = ret.id

\* C35: two overlapping calls of Pick for one unbound session over the
\* same candidates return the same record and leave one binding of the
\* session to it; stated for the pairs of calls whose second returns less
\* than the binding lifetime after the earlier of their two clock
\* readings, so that neither call is late by itself.
C35_SameRecordWithinTTL ==
    (OverlappedPick /\ now < call.out.first + stickySessionTTL)
        => SameRecordOneBinding

\* C36: no Pick moves the expiresAt or the lastUsedAt of a binding
\* backwards: the binding it writes under a key expires no earlier, and was
\* used no earlier, than the one it replaces, also when calls overlap.
C36_NeverBackwards ==
    [][ret'.call = "Pick" =>
          \A k \in DOMAIN bindings \cap DOMAIN bindings' :
              /\ bindings'[k].expiresAt >= bindings[k].expiresAt
              /\ bindings'[k].lastUsedAt >= bindings[k].lastUsedAt]_vars

-----------------------------------------------------------------------------
(* What a Pick does to the bindings of other sessions *)

\* C37: a Pick for one session leaves the bindings of every other key as
\* they are, except that a binding that is empty or expired may be gone;
\* it adds no binding under another key.
C37_OtherKeysUntouched ==
    [][ret'.call = "Pick" =>
          \A k \in (DOMAIN bindings \cup DOMAIN bindings')
                      \ {BindingKey(Provider, ret'.sessionKey)} :
              IF k \in DOMAIN bindings'
              THEN k \in DOMAIN bindings /\ bindings'[k] = bindings[k]
              ELSE bindings[k].authID = "" \/ now > bindings[k].expiresAt]_vars

\* A Pick that ran the GC has returned, and the unexpired binding of
\* another session, written earlier, is stored.
C37_Witness ==
    /\ ret.call = "Pick"
    /\ ret.id # ""
    /\ RetKey \in DOMAIN bindings
    /\ lastGC = bindings[RetKey].lastUsedAt
    /\ \E k \in DOMAIN bindings \ {RetKey} :
          /\ bindings[k].lastUsedAt < lastGC
          /\ bindings[k].expiresAt >= now

-----------------------------------------------------------------------------
(* The shape of the stored bindings *)

\* C38: in every state that calls of Pick and SessionBindingStatuses lead
\* to, each stored binding names a record and expires one lifetime after
\* its last use, and each session has at most one binding: every key is
\* the key of one session, and there are no more bindings than sessions.
C38_BindingShape ==
    /\ \A k \in DOMAIN bindings :
          /\ bindings[k].authID # ""
          /\ bindings[k].expiresAt = bindings[k].lastUsedAt + stickySessionTTL
          /\ Cardinality({sk \in SessionKeys : BindingKey(Provider, sk) = k}) = 1
    /\ Cardinality(DOMAIN bindings) <= Cardinality(SessionKeys)

\* Two sessions are bound, at different instants before the present one,
\* the GC has run and the listing has just returned.
C38_Witness ==
    /\ ret.call = "SessionBindingStatuses"
    /\ Cardinality(DOMAIN bindings) = 2
    /\ \E k1, k2 \in DOMAIN bindings :
          /\ bindings[k1].lastUsedAt < bindings[k2].lastUsedAt
          /\ bindings[k2].lastUsedAt < now
    /\ lastGC > 0

-----------------------------------------------------------------------------
(* The listing of the bindings and the routing *)

\* The record, or the error, a Pick returns.
routeOf(r) == <<r.id, r.err>>

routeWith(sessionKey, got, t) ==
    IF got.err # "" THEN <<"", got.err>>
    ELSE routeOf(pickLocked(bindings, lastGC, t, Provider, sessionKey,
                            got.available))

\* What a Pick that reads the clock at t returns for the request.
routeAt(opts, order, t) ==
    routeWith(extractStickySessionKey(opts),
              getAvailableAuths([i \in 1..Len(order) |-> auths[order[i]]],
                                "gpt-test", t),
              t)

\* What the next Pick returns, for each request, each order of the
\* candidates and each instant from now on.
Routes ==
    [opts \in RequestsLoad, order \in Orders, t \in Instants |->
        IF t >= now THEN routeAt(opts, order, t) ELSE <<"", "">>]

\* StickySelector.SessionBindingStatuses(), keeping the routing and the
\* bindings of the state it was called in.
ListBindings ==
    /\ DOMAIN bindings # {}
    /\ StatusesReturnWith(bindingStatuses(bindings, lastGC, now),
                          [valid |-> TRUE,
                           outcomes |-> [routes |-> Routes, before |-> bindings]])

\* Two sessions, an operator who disables and enables a record, and the
\* listing; the next Pick may be that of a third session.
NextListing ==
    \/ Tick
    \/ \E opts \in Requests, order \in Orders : Pick(opts, "gpt-test", order)
    \/ \E d \in BOOLEAN : SetDisabled("a", d)
    \/ ListBindings

SpecListing == Init /\ [][NextListing]_vars

\* The listing has just returned.
Listed == ret.call = "SessionBindingStatuses" /\ preview.valid

\* C39: the listing leaves every binding that has not passed its expiresAt
\* stored as it was, and the next Pick, whenever it comes and whatever its
\* session, returns what it would have returned without the listing.
C39_ListingKeepsRouting ==
    Listed =>
        /\ \A k \in DOMAIN preview.outcomes.before :
              preview.outcomes.before[k].expiresAt >= now =>
                  /\ k \in DOMAIN bindings
                  /\ bindings[k] = preview.outcomes.before[k]
        /\ Routes = preview.outcomes.routes

\* The listing ran its GC and removed an expired binding while another
\* session stayed bound, and a record is disabled.
C39_Witness ==
    /\ Listed
    /\ lastGC = now
    /\ DOMAIN bindings # {}
    /\ DOMAIN bindings # DOMAIN preview.outcomes.before
    /\ \E id \in Ids : auths[id].disabled

-----------------------------------------------------------------------------
(* PendingTagSuffix: the part of a tag a buffer ends with; strings are
   sequences of bytes *)

\* The longest buffer of the calls.
MaxBuffer == 4

\* maxLen that lets the whole tag match.
pendingMaxLenWhole(buffer, tag) == Min(Len(buffer), Len(tag))

\* maxLen := len(buffer), lowered to len(tag) - 1
pendingMaxLen(buffer, tag) ==
    IF Len(buffer) > Len(tag) - 1 THEN Len(tag) - 1 ELSE Len(buffer)

\* buffer[len(buffer)-length:] == tag[:length]
suffixIsPrefix(buffer, tag, length) ==
    SubSeq(buffer, Len(buffer) - length + 1, Len(buffer)) = SubSeq(tag, 1, length)

\* The loop: length from maxLen down to 1, the first length that matches.
RECURSIVE pendingFrom(_, _, _)
pendingFrom(buffer, tag, length) ==
    IF length <= 0 THEN 0
    ELSE IF Len(buffer) >= length /\ suffixIsPrefix(buffer, tag, length)
    THEN length
    ELSE pendingFrom(buffer, tag, length - 1)

\* PendingTagSuffix(buffer, tag)
PendingTagSuffix(buffer, tag) ==
    IF buffer = <<>> \/ tag = <<>> THEN 0
    ELSE pendingFrom(buffer, tag, pendingMaxLen(buffer, tag))

\* The bytes of the buffers, the buffers and the tags of the calls.
BufferBytes == {"<", "t", "x"}
Buffers == UNION {[1..n -> BufferBytes] : n \in 0..MaxBuffer}
Tags == {<<>>, <<"<">>, <<"<","t">>, <<"t","t">>, <<"t","t","t">>,
         <<"<","t","<">>, <<"t","x","t","x">>, <<"<","t",">">>}

SuffixCalled(buffer, tag) == [buffer |-> buffer, tag |-> tag]

PendingTagSuffixCall(buffer, tag) ==
    Returned("PendingTagSuffix", SuffixCalled(buffer, tag),
             PendingTagSuffix(buffer, tag))

\* One call, from the state where no call was made.
NextSuffix ==
    /\ call.fn = ""
    /\ \E buffer \in Buffers, tag \in Tags : PendingTagSuffixCall(buffer, tag)

SpecSuffix == Init /\ [][NextSuffix]_vars

\* The lengths k from 1 to min(len(buffer), len(tag) - 1) for which the
\* last k bytes of the buffer are the first k bytes of the tag.
PartialMatches(buffer, tag) ==
    {k \in 1..Min(Len(buffer), Len(tag) - 1) :
        \A j \in 1..k : buffer[Len(buffer) - k + j] = tag[j]}

\* C40: PendingTagSuffix returns the largest length of a partial match of
\* the tag at the end of the buffer, 0 when there is none or when an
\* argument is empty, and never the length of the whole tag.
C40_PendingTagSuffix ==
    call.fn = "PendingTagSuffix" =>
        /\ call.out \in PartialMatches(call.arg.buffer, call.arg.tag) \cup {0}
        /\ \A k \in PartialMatches(call.arg.buffer, call.arg.tag) : k <= call.out
        /\ call.out # Len(call.arg.tag) \/ call.arg.tag = <<>>
        /\ (call.arg.buffer = <<>> \/ call.arg.tag = <<>>) => call.out = 0

\* The buffer ends with the whole tag, which is also a run of one byte:
\* what is returned is the longest part shorter than the tag.
C40_Witness ==
    /\ call.fn = "PendingTagSuffix"
    /\ call.arg.tag = <<"t","t","t">>
    /\ call.arg.buffer = <<"x","t","t","t">>
    /\ call.out = 2

=============================================================================
